---- MODULE Spec2Model ----
(***************************************************************************)
(* State-machine model of the canvas application: the App component        *)
(* (node collection, selection, generation status, handleGenerate's        *)
(* fan-out / fan-in), the Canvas component (viewport, pan, drag, wheel,    *)
(* link rendering) and the ImageCard component (click, rotate, resize).    *)
(*                                                                         *)
(* Numbers.  Positions and pointer coordinates are integers (pixels /     *)
(* world units).  The viewport zoom view.k and a node's scale are kept in  *)
(* thousandths (Milli): 1.0 is 1000, 0.1 is 100, 0.2 is 200, 4.0 is 4000.  *)
(* Rotation is in whole degrees.                                           *)
(***************************************************************************)
EXTENDS Integers, Sequences, FiniteSets, TLC

VARIABLES
    images,          \* App: useState<CanvasImage[]>            (part_000:690)
    selectedId,      \* App: useState<string | null>            (part_000:693)
    status,          \* App: useState<GenerationStatus>         (part_000:694)
    now,             \* the last value Date.now() returned to handleGenerate
    apiKey,          \* process.env.API_KEY is set              (geminiService.ts:4)
    batches,         \* one record per handleGenerate invocation: its closure
    view,            \* Canvas: useState({x, y, k})             (Canvas.tsx:31)
    isPanning,       \* Canvas: useState(false)                 (Canvas.tsx:34)
    draggedImageId,  \* Canvas: useState<string | null>         (Canvas.tsx:35)
    lastMousePos,    \* Canvas: useState({x, y})                (Canvas.tsx:36)
    showLines,       \* Canvas: useState(true)                  (Canvas.tsx:37)
    dragStartRef,    \* ImageCard: useRef, one per mounted card (ImageCard.tsx:24)
    listeners,       \* window mousemove/mouseup listener pairs (ImageCard.tsx:83,108)
    mouse,           \* the pointer: position, pressed buttons, where primary went down
    canvasId,        \* App: useState<string>                   (part_000:689)
    db,              \* IndexedDB: the canvases store, and in the meta store the last
                     \* canvas id and the history index (storage.ts)
    uiOp,            \* the suspended handleNewCanvas / handleLoadCanvas, if any
    historyList,     \* App: useState<HistoryItem[]>, the ids (part_000:697)
    showHistory,     \* App: useState(false), the history modal (part_000:696)
    boot,            \* the mount: where initStorage is, the puts of the history
                     \* index that are under way, the index stored before
    budget,          \* how many more submits / user operations / events a run takes
    history          \* history: the ids the user deleted, the ids edited while loading,
                     \* the ids left on a replaced canvas, the dialog of the last
                     \* handleNewCanvas or handleLoadCanvas and the user's answer,
                     \* the handler whose save came last, if that save failed and
                     \* left the record of the canvas out of date

appVars == <<images, selectedId, status, now, apiKey, batches>>
canvasVars == <<view, isPanning, draggedImageId, lastMousePos, showLines>>
cardVars == <<dragStartRef, listeners>>
storeVars == <<canvasId, db, uiOp, historyList, showHistory, boot>>
vars == <<images, selectedId, status, now, apiKey, batches, view, isPanning,
          draggedImageId, lastMousePos, showLines, dragStartRef, listeners,
          mouse, canvasId, db, uiOp, historyList, showHistory, boot, budget,
          history>>

---------------------------------------------------------------------------
(* Bounds of the model *)

MaxSubmits == 1
MaxUserOps == 1
MaxDeletes == 1
MaxEvents == 5
MaxSwitches == 2
MaxAutoSaves == 1
MaxOverlapSubmits == 2
MaxOverlapSwitches == 1
MaxSessionOps == 2
MaxSessionDeletes == 2

(* Program constants *)

Milli == 1000
SpawnCount == 5
SpreadWidth == 320
RowOffset == 400
JitterY == 20
JitterRot == 3
DefaultSpawnX == 500
DefaultSpawnY == 400
RightOfMaxX == 400
RefYWithImages == 200
RefYEmpty == 100
RefRotation == -2
HalfCardWidth == 140
WindowInnerWidth == 1280
ZoomMin == 100
ZoomMax == 4000
ScaleMin == 200
ResizeSensitivity == 5
ClickThreshold == 5

---------------------------------------------------------------------------
(* Values *)

\* GenerationStatus (storage.ts:87-92)
GenerationStatus == {"IDLE", "GENERATING", "ERROR", "SUCCESS"}

\* Node ids.  `${timestamp}-${i}` is tag "ph", `ref-${timestamp}` is tag
\* "ref"; 'FAILED-' + id sets the failed flag; null / undefined and '' are
\* the two falsy values a string-typed id takes.
PlaceholderId(ts, i) == [failed |-> FALSE, tag |-> "ph", ts |-> ts, i |-> i]
RefImageId(ts) == [failed |-> FALSE, tag |-> "ref", ts |-> ts, i |-> 0]
NullId == [failed |-> FALSE, tag |-> "null", ts |-> 0, i |-> 0]
EmptyId == [failed |-> FALSE, tag |-> "empty", ts |-> 0, i |-> 0]
FailedId(id) == [id EXCEPT !.failed = TRUE]
StartsWithFailed(id) == id.failed
Truthy(id) == id.tag \notin {"null", "empty"}

\* urls: '' , null, and data urls
EmptyUrl == ""
NullUrl == "null"
DataUrl == "data:image/png;base64"
UrlTruthy(u) == u \notin {EmptyUrl, NullUrl}

\* `undefined` as the result of images.find / an unset parentImage
Undefined == [id |-> NullId]

Find(imgs, id) ==
    IF \E k \in 1..Len(imgs) : imgs[k].id = id
    THEN imgs[CHOOSE k \in 1..Len(imgs) :
                 /\ imgs[k].id = id
                 /\ \A j \in 1..(k - 1) : imgs[j].id # id]
    ELSE Undefined

Ids(imgs) == {imgs[k].id : k \in 1..Len(imgs)}

Max(S) == CHOOSE m \in S : \A n \in S : n <= m

MaxX(imgs) == Max({imgs[k].x : k \in 1..Len(imgs)})

\* a run under a bounded budget of events spends one at every step
CanStep == ~budget.bounded \/ budget.events > 0
Tick(bud) == IF bud.bounded THEN [bud EXCEPT !.events = @ - 1] ELSE bud

\* an ImageCard unmounts with its node, and its dragStartRef with it
Unmount(refs, imgs) ==
    [id \in (DOMAIN refs) \cap Ids(imgs) |-> refs[id]]

---------------------------------------------------------------------------
(* Math.random(): a stream of draws, each 0 (0.0), 1 (0.5) or 2 (just under
   1.0).  handleGenerate makes 2 * spawnCount draws: one per position, then
   one per placeholder rotation. *)

RandomStreams == {[d \in 0..(2 * SpawnCount - 1) |-> (d + s) % 3] : s \in 0..1}

\* Math.random() * (2 * half) - half, for the three draws
Spread(draw, half) == CASE draw = 0 -> -half
                        [] draw = 1 -> 0
                        [] OTHER -> half - 1

\* Mutant of calculateSpawnPositions: the row starts at the anchor instead
\* of being centred on it
calculateSpawnPositions_FromLeft(count, parentX, parentY, rnd) ==
    [k \in 1..count |->
        [x |-> parentX + (k - 1) * SpreadWidth,
         y |-> parentY + RowOffset + Spread(rnd[k - 1], JitterY)]]

\* calculateSpawnPositions (part_000:671-685); positions[i] is at index i + 1
calculateSpawnPositions(count, parentX, parentY, rnd) ==
    LET startX == parentX
        startY == parentY + RowOffset
    IN [k \in 1..count |->
           LET i == k - 1
               xOffset == ((2 * i - (count - 1)) * SpreadWidth) \div 2
           IN [x |-> startX + xOffset,
               y |-> startY + Spread(rnd[i], JitterY)]]

---------------------------------------------------------------------------
(* generateSingleImage (geminiService.ts:24-65).  getClient() runs outside
   the try block and throws when the API key is missing, so the promise
   rejects; an API error is caught and gives null; a response with no image
   part gives null; otherwise a data url. *)

Responses == {"image", "noimage", "error"}

generateSingleImage(key, response) ==
    IF ~key THEN "rejected"
    ELSE IF response = "image" THEN DataUrl
    ELSE NullUrl

---------------------------------------------------------------------------
(* handleGenerate (part_000:855-971) *)

\* Mutant of ApplyResult: a failure takes every node that is still loading
\* out of the collection
ApplyResult_FilterLoading(prev, placeholderId, url) ==
    IF UrlTruthy(url)
    THEN [k \in 1..Len(prev) |->
            IF prev[k].id = placeholderId
            THEN [prev[k] EXCEPT !.url = url, !.isLoading = FALSE]
            ELSE prev[k]]
    ELSE SelectSeq(prev, LAMBDA img : ~img.isLoading)

\* Mutant of ApplyResult: the resolved node is taken out and pushed at the end
ApplyResult_MoveToEnd(prev, placeholderId, url) ==
    LET rest == SelectSeq(prev, LAMBDA img : img.id # placeholderId)
        hit == SelectSeq(prev, LAMBDA img : img.id = placeholderId)
    IN IF UrlTruthy(url)
       THEN rest \o [k \in 1..Len(hit) |->
                        [hit[k] EXCEPT !.url = url, !.isLoading = FALSE]]
       ELSE rest

\* Mutant of ApplyResult: a result whose placeholder is gone puts the node
\* of the closure back
ApplyResult_Upsert(prev, placeholderId, url) ==
    LET created == {ph \in UNION {{batches[b].newPlaceholders[k] :
                                      k \in 1..Len(batches[b].newPlaceholders)} :
                                  b \in 1..Len(batches)} : ph.id = placeholderId}
        mapped == [k \in 1..Len(prev) |->
                     IF prev[k].id = placeholderId
                     THEN IF UrlTruthy(url)
                          THEN [prev[k] EXCEPT !.url = url, !.isLoading = FALSE]
                          ELSE [prev[k] EXCEPT !.id = FailedId(@)]
                     ELSE prev[k]]
        kept == SelectSeq(mapped, LAMBDA img : ~StartsWithFailed(img.id))
    IN IF UrlTruthy(url) /\ placeholderId \notin Ids(prev) /\ created # {}
       THEN Append(kept, [(CHOOSE ph \in created : TRUE)
                             EXCEPT !.url = url, !.isLoading = FALSE])
       ELSE kept

\* Mutant of ApplyResult: the resolved node is rebuilt from the placeholder
\* of the closure instead of the node of the latest collection
ApplyResult_FromClosure(prev, placeholderId, url) ==
    LET created == {ph \in UNION {{batches[b].newPlaceholders[k] :
                                      k \in 1..Len(batches[b].newPlaceholders)} :
                                  b \in 1..Len(batches)} : ph.id = placeholderId}
        mapped == [k \in 1..Len(prev) |->
                     IF prev[k].id = placeholderId
                     THEN IF UrlTruthy(url)
                          THEN IF created = {} THEN prev[k]
                               ELSE [(CHOOSE ph \in created : TRUE)
                                        EXCEPT !.url = url, !.isLoading = FALSE]
                          ELSE [prev[k] EXCEPT !.id = FailedId(@)]
                     ELSE prev[k]]
    IN SelectSeq(mapped, LAMBDA img : ~StartsWithFailed(img.id))

\* the updater of the .then callback (part_000:950-959)
ApplyResult(prev, placeholderId, url) ==
    LET mapped == [k \in 1..Len(prev) |->
                     IF prev[k].id = placeholderId
                     THEN IF UrlTruthy(url)
                          THEN [prev[k] EXCEPT !.url = url, !.isLoading = FALSE]
                          ELSE [prev[k] EXCEPT !.id = FailedId(@)]
                     ELSE prev[k]]
    IN SelectSeq(mapped, LAMBDA img : ~StartsWithFailed(img.id))

\* Mutant of RefImageNode: the reference node stays at the initial
\* refX = 0, refY = 0 when the canvas is empty
RefImageNode_AtOrigin(imgs, timestamp) ==
    [id |-> RefImageId(timestamp), url |-> DataUrl, prompt |-> "ref",
     timestamp |-> timestamp, isLoading |-> FALSE,
     x |-> IF Len(imgs) > 0 THEN MaxX(imgs) + RightOfMaxX ELSE 0,
     y |-> IF Len(imgs) > 0 THEN RefYWithImages ELSE 0,
     rotation |-> RefRotation, scale |-> Milli, parentId |-> NullId]

\* refImageNode (part_000:869-891); imgs is the images of the closure
RefImageNode(imgs, timestamp) ==
    [id |-> RefImageId(timestamp),
     url |-> DataUrl,
     prompt |-> "ref",
     timestamp |-> timestamp,
     isLoading |-> FALSE,
     x |-> IF Len(imgs) > 0 THEN MaxX(imgs) + RightOfMaxX
           ELSE WindowInnerWidth \div 2 - HalfCardWidth,
     y |-> IF Len(imgs) > 0 THEN RefYWithImages ELSE RefYEmpty,
     rotation |-> RefRotation,
     scale |-> Milli,
     parentId |-> NullId]

\* Mutant of NewPlaceholders: the placeholders carry no parentId
NewPlaceholders_NoParent(prompt, timestamp, parentImage, spawnSourceX, spawnSourceY, rnd) ==
    LET positions == calculateSpawnPositions(SpawnCount, spawnSourceX, spawnSourceY, rnd)
    IN [k \in 1..SpawnCount |->
           [id |-> PlaceholderId(timestamp, k - 1), url |-> EmptyUrl,
            prompt |-> IF prompt # "" THEN prompt ELSE "Variation",
            timestamp |-> timestamp, isLoading |-> TRUE,
            x |-> positions[k].x, y |-> positions[k].y,
            rotation |-> Spread(rnd[SpawnCount + k - 1], JitterRot),
            scale |-> Milli, parentId |-> NullId]]

\* newPlaceholders (part_000:923-937)
NewPlaceholders(prompt, timestamp, parentImage, spawnSourceX, spawnSourceY, rnd) ==
    LET positions == calculateSpawnPositions(SpawnCount, spawnSourceX, spawnSourceY, rnd)
    IN [k \in 1..SpawnCount |->
           LET i == k - 1
           IN [id |-> PlaceholderId(timestamp, i),
               url |-> EmptyUrl,
               prompt |-> IF prompt # "" THEN prompt ELSE "Variation",
               timestamp |-> timestamp,
               isLoading |-> TRUE,
               x |-> positions[k].x,
               y |-> positions[k].y,
               rotation |-> Spread(rnd[SpawnCount + i], JitterRot),
               scale |-> Milli,
               parentId |-> parentImage.id]]

\* sections 4 and 5 of handleGenerate (part_000:922-970): append the
\* placeholders to the latest collection and fire one request for each
FireRequests(b, call, prev, parentImage, spawnSourceX, spawnSourceY, rnd) ==
    LET newPlaceholders == NewPlaceholders(call.prompt, call.timestamp, parentImage,
                                           spawnSourceX, spawnSourceY, rnd)
    IN /\ images' = prev \o newPlaceholders
       /\ batches' = [batches EXCEPT ![b] =
              [call EXCEPT !.pc = "fired",
                           !.parentImage = parentImage,
                           !.spawnSourceX = spawnSourceX,
                           !.spawnSourceY = spawnSourceY,
                           !.newPlaceholders = newPlaceholders,
                           !.activeRequests = SpawnCount,
                           !.requests = [k \in 1..SpawnCount |-> "pending"]]]

\* Mutant of CanSubmit: the form is not disabled while generating
CanSubmit_NoLock(prompt, file) == ~(prompt = "" /\ ~file)

\* ControlPanel: the input and the submit button are disabled while the
\* status is GENERATING (ControlPanel.tsx:29,100,110); handleSubmit returns
\* when there is neither a prompt nor a file (ControlPanel.tsx:17)
CanSubmit(prompt, file) ==
    /\ status # "GENERATING"
    /\ ~(prompt = "" /\ ~file)

\* the submissions: a prompt alone, or a file alone
Submissions == {[prompt |-> "cat", file |-> FALSE], [prompt |-> "", file |-> TRUE]}

\* Mutant of DateNow: the clock has not advanced since the last reading
DateNow_SameMs(t) == t

\* Date.now() (part_000:858, 802), t the last value read: the calls of two
\* submits, and of a submit and a new canvas, are user actions apart, so
\* each reads a later millisecond
DateNow(t) == t + 1

\* two batches have requests in flight at the same time.  Without an API
\* key no request is sent: getClient throws before the call
\* (geminiService.ts), and the promise is rejected when it is made.
Overlapping(bs) ==
    \E b1, b2 \in 1..Len(bs) :
        /\ apiKey
        /\ b1 # b2
        /\ bs[b1].pc = "fired" /\ \E k \in 1..Len(bs[b1].requests) : bs[b1].requests[k] = "pending"
        /\ bs[b2].pc = "fired" /\ \E k \in 1..Len(bs[b2].requests) : bs[b2].requests[k] = "pending"

\* handleSubmit, then handleGenerate up to its first await (part_000:855-867,
\* 904-906) or, with no reference at all, to its end
Generate(prompt, file, rnd) ==
    /\ CanStep
    /\ budget.submits > 0
    /\ CanSubmit(prompt, file)
    /\ LET timestamp == DateNow(now)
           parentImage == IF Truthy(selectedId) THEN Find(images, selectedId)
                          ELSE Undefined
           b == Len(batches) + 1
           call == [pc |-> "start", timestamp |-> timestamp, prompt |-> prompt,
                    file |-> file, parentImage |-> parentImage, images |-> images,
                    spawnSourceX |-> DefaultSpawnX, spawnSourceY |-> DefaultSpawnY,
                    newPlaceholders |-> <<>>, activeRequests |-> 0,
                    requests |-> <<>>, canvasId |-> canvasId]
       IN /\ now' = timestamp
          /\ status' = "GENERATING"
          /\ IF file
             THEN /\ batches' = Append(batches, [call EXCEPT !.pc = "awaitFile"])
                  /\ images' = images
             ELSE IF parentImage # Undefined
             THEN /\ batches' = Append(batches, [call EXCEPT !.pc = "awaitUrl"])
                  /\ images' = images
             ELSE LET spawnSourceX == IF Len(images) > 0 THEN MaxX(images) + RightOfMaxX
                                      ELSE DefaultSpawnX
                      spawnSourceY == DefaultSpawnY
                      newPlaceholders == NewPlaceholders(prompt, timestamp, parentImage,
                                             spawnSourceX, spawnSourceY, rnd)
                  IN /\ images' = images \o newPlaceholders
                     /\ batches' = Append(batches,
                            [call EXCEPT !.pc = "fired",
                                         !.spawnSourceX = spawnSourceX,
                                         !.spawnSourceY = spawnSourceY,
                                         !.newPlaceholders = newPlaceholders,
                                         !.activeRequests = SpawnCount,
                                         !.requests = [k \in 1..SpawnCount |-> "pending"]])
          /\ budget' = Tick([budget EXCEPT !.submits = @ - 1])
    /\ UNCHANGED <<selectedId, apiKey, canvasVars, cardVars, mouse>>
    /\ UNCHANGED storeVars
    /\ history' = [history EXCEPT !.overlap = @ \/ Overlapping(batches')]

\* fileToBase64 settles (part_000:867-901), then sections 4 and 5
FileRead(b, ok, rnd) ==
    /\ CanStep
    /\ b \in 1..Len(batches)
    /\ batches[b].pc = "awaitFile"
    /\ LET call == batches[b]
           refImageNode == RefImageNode(call.images, call.timestamp)
       IN IF ok
          THEN FireRequests(b, call, Append(images, refImageNode), refImageNode,
                            refImageNode.x, refImageNode.y, rnd)
          ELSE FireRequests(b, call, images, call.parentImage,
                            DefaultSpawnX, DefaultSpawnY, rnd)
    /\ budget' = Tick(budget)
    /\ UNCHANGED <<selectedId, status, now, apiKey, canvasVars, cardVars, mouse>>
    /\ UNCHANGED storeVars
    /\ history' = [history EXCEPT !.overlap = @ \/ Overlapping(batches')]

\* urlToBase64 of the selected image settles (part_000:904-912), then
\* sections 4 and 5
UrlFetched(b, ok, rnd) ==
    /\ CanStep
    /\ b \in 1..Len(batches)
    /\ batches[b].pc = "awaitUrl"
    /\ LET call == batches[b]
       IN IF ok
          THEN FireRequests(b, call, images, call.parentImage,
                            call.parentImage.x, call.parentImage.y, rnd)
          ELSE FireRequests(b, call, images, call.parentImage,
                            DefaultSpawnX, DefaultSpawnY, rnd)
    /\ budget' = Tick(budget)
    /\ UNCHANGED <<selectedId, status, now, apiKey, canvasVars, cardVars, mouse>>
    /\ UNCHANGED storeVars
    /\ history' = [history EXCEPT !.overlap = @ \/ Overlapping(batches')]

\* Mutant of StatusAfterSettle: the batch completes one request early
StatusAfterSettle_Early(active, current) ==
    IF active - 1 <= 1 THEN "SUCCESS" ELSE current

\* the .finally callback (part_000:961-969): the status after a request of
\* a batch with `active` requests left has settled
StatusAfterSettle(active, current) ==
    IF active - 1 = 0 THEN "SUCCESS" ELSE current

\* one request settles: the .then callback when the promise fulfils, then
\* the .finally callback in either case (part_000:948-969)
Settle(b, k, response) ==
    /\ CanStep
    /\ b \in 1..Len(batches)
    /\ batches[b].pc = "fired"
    /\ k \in 1..Len(batches[b].requests)
    /\ batches[b].requests[k] = "pending"
    /\ LET call == batches[b]
           placeholder == call.newPlaceholders[k]
           result == generateSingleImage(apiKey, response)
       IN /\ images' = IF result = "rejected" THEN images
                       ELSE ApplyResult(images, placeholder.id, result)
          /\ batches' = [batches EXCEPT ![b].requests[k] = result,
                                        ![b].activeRequests = @ - 1]
          /\ status' = StatusAfterSettle(call.activeRequests, status)
    /\ dragStartRef' = Unmount(dragStartRef, images')
    /\ budget' = Tick(budget)
    /\ UNCHANGED <<selectedId, now, apiKey, canvasVars, listeners, mouse, history>>
    /\ UNCHANGED storeVars

---------------------------------------------------------------------------
(* App: handleSelect, handleDelete, handleUpdateImage (part_000:973-986) *)

\* Mutant of handleSelect: the empty id of the background is ignored
handleSelect_IgnoresEmpty(prev, id) ==
    IF ~Truthy(id) THEN prev ELSE IF prev = id THEN NullId ELSE id

\* handleSelect: the updater of setSelectedId
handleSelect(prev, id) == IF prev = id THEN NullId ELSE id

\* Mutant of DeleteImages: the delete cascades to the children
DeleteImages_Cascade(prev, id) ==
    SelectSeq(prev, LAMBDA img : img.id # id /\ img.parentId # id)

\* handleDelete: the collection after delete(id)
DeleteImages(prev, id) == SelectSeq(prev, LAMBDA img : img.id # id)

\* Mutant of DeleteSelection: the selection survives the delete
DeleteSelection_Keep(sel, id) == sel

\* handleDelete: the selection after delete(id)
DeleteSelection(sel, id) == IF sel = id THEN NullId ELSE sel

\* { ...img, ...updates }
Merge(img, updates) ==
    [f \in DOMAIN img |-> IF f \in DOMAIN updates THEN updates[f] ELSE img[f]]

\* Mutant of handleUpdateImage: the test of the id is missing
handleUpdateImage_AllNodes(prev, id, updates) ==
    [k \in 1..Len(prev) |-> Merge(prev[k], updates)]

\* handleUpdateImage: the updater of setImages
handleUpdateImage(prev, id, updates) ==
    [k \in 1..Len(prev) |-> IF prev[k].id = id THEN Merge(prev[k], updates)
                            ELSE prev[k]]

---------------------------------------------------------------------------
(* Canvas: wheel, pan, drag (Canvas.tsx:46-110) *)

Min2(a, b) == IF a < b THEN a ELSE b
Max2(a, b) == IF a > b THEN a ELSE b

\* Mutant of NewScale: the lower clamp is missing
NewScale_NoFloor(k, deltaY) ==
    Min2((k * (Milli - deltaY)) \div Milli, ZoomMax)

\* newScale of handleWheel (Canvas.tsx:94-95): scaleAmount = -deltaY * 0.001
NewScale(k, deltaY) ==
    Min2(Max2(ZoomMin, (k * (Milli - deltaY)) \div Milli), ZoomMax)

\* Mutant of screenToWorld: the pan is not taken off
screenToWorld_NoPan(screen, pan, k) == [num |-> screen, den |-> k]

\* (screen - pan) / zoom (Canvas.tsx:103-104).  A world coordinate is kept
\* exact, as the quotient of num pixels by a zoom of den thousandths: the
\* code divides in floating point and does not round to a whole world unit.
screenToWorld(screen, pan, k) == [num |-> screen - pan, den |-> k]

\* world * zoom, in whole pixels (Canvas.tsx:106-107 and the scale(...) of the
\* CSS transform, Canvas.tsx:218)
Scaled(world, k) == (world.num * k) \div world.den

\* world * zoom + pan: translate(view.x, view.y) scale(view.k) (Canvas.tsx:218)
worldToScreen(world, pan, k) == Scaled(world, k) + pan

\* Mutant of WheelView: the pan is computed from the zoom before the clamp
WheelView_PanFromUnclamped(v, mouseX, mouseY, deltaY) ==
    LET newScale == NewScale(v.k, deltaY)
        raw == (v.k * (Milli - deltaY)) \div Milli
        mouseWorldX == screenToWorld(mouseX, v.x, v.k)
        mouseWorldY == screenToWorld(mouseY, v.y, v.k)
    IN [x |-> mouseX - Scaled(mouseWorldX, raw),
        y |-> mouseY - Scaled(mouseWorldY, raw),
        k |-> newScale]

\* handleWheel (Canvas.tsx:91-110); mouseX, mouseY are relative to the
\* container, whose corner is taken as the origin of client coordinates
WheelView(v, mouseX, mouseY, deltaY) ==
    LET newScale == NewScale(v.k, deltaY)
        mouseWorldX == screenToWorld(mouseX, v.x, v.k)
        mouseWorldY == screenToWorld(mouseY, v.y, v.k)
    IN [x |-> mouseX - Scaled(mouseWorldX, newScale),
        y |-> mouseY - Scaled(mouseWorldY, newScale),
        k |-> newScale]

\* the drag branch of handleMouseMove (Canvas.tsx:71-81)
DragImages(prev, id, deltaX, deltaY, k) ==
    LET worldDeltaX == (deltaX * Milli) \div k
        worldDeltaY == (deltaY * Milli) \div k
        img == Find(prev, id)
    IN IF img # Undefined
       THEN handleUpdateImage(prev, id, [x |-> img.x + worldDeltaX,
                                         y |-> img.y + worldDeltaY])
       ELSE prev

\* Mutant of LineElement: the missing-parent check is left out
LineElement_NoParentCheck(imgs, img) ==
    IF ~Truthy(img.parentId) THEN "null"
    ELSE LET parent == Find(imgs, img.parentId)
         IN IF parent = Undefined THEN "TypeError" ELSE "path"

\* what renderLines returns for one node (Canvas.tsx:118-148): null, or
\* the path of its connector; reading parent.x of an undefined parent
\* would be a TypeError
LineElement(imgs, img) ==
    IF ~Truthy(img.parentId) THEN "null"
    ELSE LET parent == Find(imgs, img.parentId)
         IN IF parent = Undefined THEN "null" ELSE "path"

\* renderLines (Canvas.tsx:113-152): one element per node, nothing at all
\* when the links are hidden
renderLines(show, imgs) ==
    IF ~show THEN <<>>
    ELSE [j \in 1..Len(imgs) |-> LineElement(imgs, imgs[j])]

---------------------------------------------------------------------------
(* ImageCard: rotate and resize (ImageCard.tsx:60-110) *)

\* Math.atan2(dy, dx) in degrees, to the nearest multiple of 45
Atan2Deg(dy, dx) ==
    LET ax == IF dx < 0 THEN -dx ELSE dx
        ay == IF dy < 0 THEN -dy ELSE dy
        \* the angle of (ax, ay) in the first quadrant: 0, 45 or 90
        q == IF 2 * ay < ax THEN 0 ELSE IF 2 * ax < ay THEN 90
             ELSE IF ax = 0 THEN 0 ELSE 45
    IN IF dx >= 0 /\ dy >= 0 THEN q
       ELSE IF dx < 0 /\ dy >= 0 THEN 180 - q
       ELSE IF dx < 0 /\ dy < 0 THEN q - 180
       ELSE -q

\* onMouseMove of handleRotateStart (ImageCard.tsx:71-76)
RotateUpdate(l, clientX, clientY) ==
    [rotation |-> Atan2Deg(clientY - l.centerY, clientX - l.centerX) + 90]

\* onMouseMove of handleResizeStart (ImageCard.tsx:95-101)
ResizeUpdate(l, clientY) ==
    LET deltaY == clientY - l.startY
    IN [scale |-> Max2(ScaleMin, l.startScale + deltaY * ResizeSensitivity)]

\* every window mousemove listener, in the order of registration
RECURSIVE RunListeners(_, _, _, _)
RunListeners(ls, prev, clientX, clientY) ==
    IF ls = <<>> THEN prev
    ELSE LET l == Head(ls)
             updates == IF l.kind = "rotate" THEN RotateUpdate(l, clientX, clientY)
                        ELSE ResizeUpdate(l, clientY)
         IN RunListeners(Tail(ls), handleUpdateImage(prev, l.id, updates),
                         clientX, clientY)

---------------------------------------------------------------------------
(* Pointer events.  The element under the pointer is an input of the event
   (hit testing is not modelled); the pointer's position and pressed buttons
   are state. *)

Buttons == {0, 2}
MoveDeltas == {<<3, 0>>, <<0, -200>>, <<40, 30>>}
WheelDeltas == {100, -100, 2000, -5000}

\* handleWheel (Canvas.tsx:91-110)
Wheel(deltaY) ==
    /\ CanStep
    /\ mouse.inside
    /\ view' = WheelView(view, mouse.x, mouse.y, deltaY)
    /\ budget' = Tick(budget)
    /\ UNCHANGED <<appVars, isPanning, draggedImageId, lastMousePos, showLines,
                   cardVars, mouse, history>>
    /\ UNCHANGED storeVars

\* mousedown on the canvas background: handleCanvasMouseDown with
\* e.target === containerRef.current (Canvas.tsx:53-62)
CanvasMouseDown(button) ==
    /\ CanStep
    /\ mouse.inside
    /\ button \notin mouse.buttons
    /\ IF button = 2
       THEN /\ isPanning' = TRUE
            /\ lastMousePos' = [x |-> mouse.x, y |-> mouse.y]
            /\ UNCHANGED selectedId
       ELSE /\ selectedId' = handleSelect(selectedId, EmptyId)
            /\ UNCHANGED <<isPanning, lastMousePos>>
    /\ mouse' = [mouse EXCEPT !.buttons = @ \cup {button},
                              !.downOn = IF button = 0 THEN NullId ELSE @]
    /\ budget' = Tick(budget)
    /\ UNCHANGED <<images, status, now, apiKey, batches, view, draggedImageId,
                   showLines, cardVars, history>>
    /\ UNCHANGED storeVars

\* mousedown on a card's body: ImageCard.handleMouseDown (ImageCard.tsx:27-40)
\* and through it handleImageMouseDown (Canvas.tsx:46-50); with another
\* button the event bubbles to handleCanvasMouseDown instead
CardMouseDown(id, button) ==
    /\ CanStep
    /\ mouse.inside
    /\ button \notin mouse.buttons
    /\ id \in Ids(images)
    /\ IF button = 0
       THEN /\ dragStartRef' = (id :> [x |-> mouse.x, y |-> mouse.y]) @@ dragStartRef
            /\ draggedImageId' = id
            /\ lastMousePos' = [x |-> mouse.x, y |-> mouse.y]
            /\ UNCHANGED isPanning
       ELSE /\ isPanning' = TRUE
            /\ lastMousePos' = [x |-> mouse.x, y |-> mouse.y]
            /\ UNCHANGED <<dragStartRef, draggedImageId>>
    /\ mouse' = [mouse EXCEPT !.buttons = @ \cup {button},
                              !.downOn = IF button = 0 THEN id ELSE @]
    /\ budget' = Tick(budget)
    /\ UNCHANGED <<appVars, view, showLines, listeners, history>>
    /\ UNCHANGED storeVars

\* Mutant of HandlesRendered: every card has its handles
HandlesRendered_Always(sel, id) == TRUE

\* isSelected && (...): the rotate handle and the resize handles are rendered
\* for the selected card only (ImageCard.tsx:137,202; Canvas.tsx:236)
HandlesRendered(sel, id) == id = sel

\* mousedown on the rotate handle or on a resize handle of a card, which
\* are rendered only for the selected card (ImageCard.tsx:137,202):
\* handleRotateStart (60-85), handleResizeStart (88-110).  The centre of
\* the card's bounding rectangle lies at an offset from the pointer.
HandleMouseDown(id, kind, button, off) ==
    /\ CanStep
    /\ mouse.inside
    /\ button \notin mouse.buttons
    /\ id \in Ids(images)
    /\ HandlesRendered(selectedId, id)
    /\ listeners' = Append(listeners,
          IF kind = "rotate"
          THEN [kind |-> "rotate", id |-> id,
                centerX |-> mouse.x + off[1], centerY |-> mouse.y + off[2],
                startY |-> 0, startScale |-> 0]
          ELSE [kind |-> "resize", id |-> id, centerX |-> 0, centerY |-> 0,
                startY |-> mouse.y, startScale |-> Find(images, id).scale])
    /\ mouse' = [mouse EXCEPT !.buttons = @ \cup {button},
                              !.downOn = IF button = 0 THEN id ELSE @]
    /\ budget' = Tick(budget)
    /\ UNCHANGED <<appVars, canvasVars, dragStartRef, history>>
    /\ UNCHANGED storeVars

\* the viewport after the pointer has moved by d: the pan branch of
\* handleMouseMove (Canvas.tsx:69-70), which runs when the pointer is over
\* the canvas
MovedView(d) ==
    LET deltaX == mouse.x + d[1] - lastMousePos.x
        deltaY == mouse.y + d[2] - lastMousePos.y
    IN IF mouse.inside /\ isPanning
       THEN [view EXCEPT !.x = @ + deltaX, !.y = @ + deltaY]
       ELSE view

\* the collection after the pointer has moved by d: the drag branch of
\* handleMouseMove (Canvas.tsx:71-81), then the window listeners
\* (ImageCard.tsx:71,95)
MovedImages(d) ==
    LET clientX == mouse.x + d[1]
        clientY == mouse.y + d[2]
        deltaX == clientX - lastMousePos.x
        deltaY == clientY - lastMousePos.y
        dragged == IF mouse.inside /\ ~isPanning /\ Truthy(draggedImageId)
                   THEN DragImages(images, draggedImageId, deltaX, deltaY, view.k)
                   ELSE images
    IN RunListeners(listeners, dragged, clientX, clientY)

\* the pointer moves: handleMouseMove of the canvas when the pointer is over
\* it (Canvas.tsx:64-83), then the window listeners (ImageCard.tsx:71,95)
MouseMove(d) ==
    /\ CanStep
    /\ LET clientX == mouse.x + d[1]
           clientY == mouse.y + d[2]
       IN /\ mouse' = [mouse EXCEPT !.x = clientX, !.y = clientY]
          /\ lastMousePos' = IF mouse.inside THEN [x |-> clientX, y |-> clientY]
                             ELSE lastMousePos
          /\ view' = MovedView(d)
          /\ images' = MovedImages(d)
    /\ budget' = Tick(budget)
    /\ history' = [history EXCEPT !.editedLoading = @ \cup
          {images[j].id : j \in {j \in 1..Len(images) :
               /\ images[j].isLoading
               /\ \E i \in 1..Len(images') : /\ images'[i].id = images[j].id
                                               /\ images'[i] # images[j]}}]
    /\ UNCHANGED <<selectedId, status, now, apiKey, batches, isPanning,
                   draggedImageId, showLines, cardVars>>
    /\ UNCHANGED storeVars

\* ImageCard.handleClick (ImageCard.tsx:42-52): the selection after a click
\* at (clientX, clientY) on card id
ClickSelection(sel, refs, id, clientX, clientY) ==
    IF id \in DOMAIN refs
    THEN LET dx == clientX - refs[id].x
             dy == clientY - refs[id].y
         IN IF dx * dx + dy * dy < ClickThreshold * ClickThreshold
            THEN handleSelect(sel, id)
            ELSE sel
    ELSE handleSelect(sel, id)

\* a button is released: handleMouseUp of the canvas (Canvas.tsx:85-88), the
\* window mouseup listeners (ImageCard.tsx:78,103), and, when the primary
\* button went down and comes up on the same card, that card's click
MouseUp(button, onSameCard) ==
    /\ CanStep
    /\ button \in mouse.buttons
    /\ isPanning' = IF mouse.inside THEN FALSE ELSE isPanning
    /\ draggedImageId' = IF mouse.inside THEN NullId ELSE draggedImageId
    /\ listeners' = <<>>
    /\ selectedId' = IF /\ button = 0
                        /\ onSameCard
                        /\ mouse.inside
                        /\ mouse.downOn \in Ids(images)
                     THEN ClickSelection(selectedId, dragStartRef, mouse.downOn,
                                         mouse.x, mouse.y)
                     ELSE selectedId
    /\ mouse' = [mouse EXCEPT !.buttons = @ \ {button},
                              !.downOn = IF button = 0 THEN NullId ELSE @]
    /\ budget' = Tick(budget)
    /\ UNCHANGED <<images, status, now, apiKey, batches, view, lastMousePos,
                   showLines, dragStartRef, history>>
    /\ UNCHANGED storeVars

\* the pointer leaves the canvas: onMouseLeave = handleMouseUp (Canvas.tsx:161)
MouseLeave ==
    /\ CanStep
    /\ mouse.inside
    /\ isPanning' = FALSE
    /\ draggedImageId' = NullId
    /\ mouse' = [mouse EXCEPT !.inside = FALSE]
    /\ budget' = Tick(budget)
    /\ UNCHANGED <<appVars, view, lastMousePos, showLines, cardVars, history>>
    /\ UNCHANGED storeVars

\* the pointer comes back over the canvas: no handler
MouseEnter ==
    /\ CanStep
    /\ ~mouse.inside
    /\ mouse' = [mouse EXCEPT !.inside = TRUE]
    /\ budget' = Tick(budget)
    /\ UNCHANGED <<appVars, canvasVars, cardVars, history>>
    /\ UNCHANGED storeVars

\* a click on the delete button of the selected card (ImageCard.tsx:202-211):
\* its mouseup reaches handleMouseUp and the window listeners, its click
\* calls handleDelete (part_000:977-980)
DeleteClick(id) ==
    /\ CanStep
    /\ budget.deletes > 0
    /\ mouse.inside
    /\ 0 \notin mouse.buttons
    /\ id \in Ids(images)
    /\ selectedId = id
    /\ images' = DeleteImages(images, id)
    /\ selectedId' = DeleteSelection(selectedId, id)
    /\ dragStartRef' = Unmount(dragStartRef, images')
    /\ isPanning' = FALSE
    /\ draggedImageId' = NullId
    /\ listeners' = <<>>
    /\ budget' = Tick([budget EXCEPT !.deletes = @ - 1])
    /\ history' = [history EXCEPT !.deleted = @ \cup {id}]
    /\ UNCHANGED <<status, now, apiKey, batches, view, lastMousePos, showLines, mouse>>
    /\ UNCHANGED storeVars

\* a click on the show / hide links button (Canvas.tsx:201-206)
ToggleLines ==
    /\ CanStep
    /\ mouse.inside
    /\ 0 \notin mouse.buttons
    /\ showLines' = ~showLines
    /\ isPanning' = FALSE
    /\ draggedImageId' = NullId
    /\ listeners' = <<>>
    /\ budget' = Tick(budget)
    /\ UNCHANGED <<appVars, view, lastMousePos, dragStartRef, mouse, history>>
    /\ UNCHANGED storeVars

---------------------------------------------------------------------------
(* The App's callbacks as the Canvas invokes them: onSelectImage from a
   card's click or from the background (Canvas.tsx:59,237), onUpdateImage
   from a drag, a rotation or a resize (Canvas.tsx:77, ImageCard.tsx:75,100) *)

Select(id) ==
    /\ CanStep
    /\ budget.user > 0
    /\ id \in Ids(images) \cup {EmptyId}
    /\ selectedId' = handleSelect(selectedId, id)
    /\ budget' = Tick([budget EXCEPT !.user = @ - 1])
    /\ UNCHANGED <<images, status, now, apiKey, batches, canvasVars, cardVars, mouse,
                   history>>
    /\ UNCHANGED storeVars

\* the partial transforms the gestures send
Updates(img) == {[x |-> img.x + 40, y |-> img.y - 30],
                 [rotation |-> 45],
                 [scale |-> 1500]}

UpdateImage(id, updates) ==
    /\ CanStep
    /\ budget.user > 0
    /\ id \in Ids(images)
    /\ images' = handleUpdateImage(images, id, updates)
    /\ budget' = Tick([budget EXCEPT !.user = @ - 1])
    /\ history' = IF Find(images, id).isLoading
                  THEN [history EXCEPT !.editedLoading = @ \cup {id}]
                  ELSE history
    /\ UNCHANGED <<selectedId, status, now, apiKey, batches, canvasVars, cardVars, mouse>>
    /\ UNCHANGED storeVars

---------------------------------------------------------------------------
(* Persistence: saveCurrentData, the auto-save effect, handleNewCanvas and
   handleLoadCanvas (part_000:736-853) over the canvases store of IndexedDB
   (storage.ts:24-44) *)

\* canvas ids: 'default-' + Date.now() at mount (part_000:689),
\* 'canvas-' + Date.now() for a new canvas (part_000:802)
DefaultCanvasId == [tag |-> "default", ts |-> 0]
NewCanvasId(ts) == [tag |-> "canvas", ts |-> ts]

\* no handler is suspended
NoOp == [pc |-> "idle", id |-> DefaultCanvasId, canvasId |-> DefaultCanvasId,
         images |-> <<>>]

\* Mutant of StructuredClone: the stored copy loses the nodes' transforms
StructuredClone_ResetsTransform(imgs) ==
    [k \in 1..Len(imgs) |-> [imgs[k] EXCEPT !.rotation = 0, !.scale = Milli]]

\* store.put(data) / store.get(id) (storage.ts:24-44): the structured clone
\* of the collection, node by node and field by field
StructuredClone(imgs) ==
    [k \in 1..Len(imgs) |-> [f \in DOMAIN imgs[k] |-> imgs[k][f]]]

\* saveCurrentData (part_000:736-770) on the database: nothing for an empty
\* collection or when the put fails, else the record of the canvas and the
\* last canvas id
saveCurrentData(store, currentId, currentImages, ok) ==
    IF Len(currentImages) = 0 \/ ~ok THEN store
    ELSE [store EXCEPT
            !.canvases = (currentId :> StructuredClone(currentImages)) @@ store.canvases,
            !.last = currentId]

\* the outcome of a handler's save, for the history: the handler when the
\* save failed and left the record of the canvas out of date, else none
SaveOutcome(handler, store, currentId, currentImages, ok) ==
    IF ~ok /\ saveCurrentData(store, currentId, currentImages, TRUE) # store
    THEN handler ELSE "none"

\* the setHistoryList of saveCurrentData (part_000:751-765): the entry of the
\* canvas is renewed in place, or a new one is put in front
saveHistoryList(list, currentId, currentImages, ok) ==
    IF Len(currentImages) = 0 \/ ~ok THEN list
    ELSE IF \E j \in 1..Len(list) : list[j] = currentId THEN list
    ELSE <<currentId>> \o list

\* Mutant of RemoveEntry: the index is emptied
RemoveEntry_All(list, id) == <<>>

\* prev.filter(item => item.id !== id) (part_000:846)
RemoveEntry(list, id) == SelectSeq(list, LAMBDA item : item # id)

\* loadCanvasFromDB (storage.ts:35-44): the record, or undefined
loadCanvasFromDB(store, id) ==
    IF id \in DOMAIN store.canvases THEN StructuredClone(store.canvases[id])
    ELSE <<Undefined>>

\* the auto-save effect (part_000:773-781), one second after the collection
\* or the canvas id last changed: with an empty collection the effect has
\* returned without a timer and nothing is saved; else the timer of the last
\* render fires and saveCurrentData runs, here with a save that succeeds
AutoSave ==
    /\ CanStep
    /\ UNCHANGED boot
    /\ budget.saves > 0
    /\ Len(images) = 0 \/ db # saveCurrentData(db, canvasId, images, TRUE)
    /\ db' = saveCurrentData(db, canvasId, images, TRUE)
    /\ historyList' = saveHistoryList(historyList, canvasId, images, TRUE)
    /\ budget' = Tick([budget EXCEPT !.saves = @ - 1])
    /\ UNCHANGED <<appVars, canvasVars, cardVars, mouse, canvasId, uiOp, showHistory,
                   history>>

\* Mutant of SwitchToNewCanvas: the selection survives the switch
SwitchToNewCanvas_KeepsSelection(store, list, failed) ==
    /\ now' = DateNow(now)
    /\ images' = <<>>
    /\ canvasId' = NewCanvasId(now')
    /\ selectedId' = selectedId
    /\ status' = "IDLE"
    /\ db' = [store EXCEPT !.last = canvasId']
    /\ historyList' = list
    /\ uiOp' = NoOp
    /\ dragStartRef' = Unmount(dragStartRef, images')
    /\ history' = [history EXCEPT !.wiped = @ \cup Ids(images), !.failed = failed,
                                  !.answer = IF uiOp.pc = "newSaving" THEN @ ELSE "none"]

\* the rest of handleNewCanvas, from newId on (part_000:802-812), store
\* and list being the database and the index after the save that came before,
\* failed the handler when that save failed
SwitchToNewCanvas(store, list, failed) ==
    /\ now' = DateNow(now)
    /\ images' = <<>>
    /\ canvasId' = NewCanvasId(now')
    /\ selectedId' = NullId
    /\ status' = "IDLE"
    /\ db' = [store EXCEPT !.last = canvasId']
    /\ historyList' = list
    /\ uiOp' = NoOp
    /\ dragStartRef' = Unmount(dragStartRef, images')
    /\ history' = [history EXCEPT !.wiped = @ \cup Ids(images), !.failed = failed,
                                  !.answer = IF uiOp.pc = "newSaving" THEN @ ELSE "none"]

\* handleNewCanvas (part_000:785-809) up to its await: the user is asked
\* about a non-empty canvas and declines, which ends the handler, or accepts,
\* which starts the save; an empty canvas is replaced at once
NewCanvasStart(accept) ==
    /\ CanStep
    /\ UNCHANGED boot
    /\ uiOp.pc = "idle"
    /\ budget.switches > 0
    /\ IF Len(images) > 0
       THEN /\ uiOp' = IF accept
                       THEN [pc |-> "newSaving", id |-> DefaultCanvasId,
                             canvasId |-> canvasId, images |-> images]
                       ELSE uiOp
            /\ history' = [history EXCEPT !.answer = IF accept THEN "accept"
                                                     ELSE "decline"]
            /\ UNCHANGED <<images, canvasId, selectedId, status, now, db,
                           historyList, dragStartRef>>
       ELSE /\ accept
            /\ SwitchToNewCanvas(db, historyList, history.failed)
    /\ budget' = Tick([budget EXCEPT !.switches = @ - 1])
    /\ UNCHANGED <<apiKey, batches, canvasVars, listeners, mouse, showHistory>>

\* the save of handleNewCanvas settles (part_000:791-796), then the rest
NewCanvasSaved(ok) ==
    /\ CanStep
    /\ UNCHANGED boot
    /\ uiOp.pc = "newSaving"
    /\ SwitchToNewCanvas(saveCurrentData(db, uiOp.canvasId, uiOp.images, ok),
                         saveHistoryList(historyList, uiOp.canvasId, uiOp.images, ok),
                         SaveOutcome("new", db, uiOp.canvasId, uiOp.images, ok))
    /\ budget' = Tick(budget)
    /\ UNCHANGED <<apiKey, batches, canvasVars, listeners, mouse, showHistory>>

\* handleOpenHistory (part_000:811-822) up to its await: the save of a
\* non-empty canvas; with an empty canvas the modal opens at once
OpenHistoryStart ==
    /\ CanStep
    /\ UNCHANGED boot
    /\ uiOp.pc = "idle"
    /\ ~showHistory
    /\ IF Len(images) > 0
       THEN /\ uiOp' = [pc |-> "historySaving", id |-> DefaultCanvasId,
                        canvasId |-> canvasId, images |-> images]
            /\ showHistory' = showHistory
       ELSE /\ uiOp' = uiOp
            /\ showHistory' = TRUE
    /\ budget' = Tick(budget)
    /\ UNCHANGED <<appVars, canvasVars, cardVars, mouse, canvasId, db,
                   historyList, history>>

\* Mutant of ShowAfterSave: a failed save keeps the modal closed
ShowAfterSave_OnlyIfSaved(ok) == ok

\* handleOpenHistory after its try / catch (part_000:814-821): the catch
\* only logs, setShowHistory(true) follows in either case
ShowAfterSave(ok) == TRUE

\* the save of handleOpenHistory settles (part_000:814-821): the modal opens
\* whether the save succeeded or not
OpenHistorySaved(ok) ==
    /\ CanStep
    /\ UNCHANGED boot
    /\ uiOp.pc = "historySaving"
    /\ db' = saveCurrentData(db, uiOp.canvasId, uiOp.images, ok)
    /\ historyList' = saveHistoryList(historyList, uiOp.canvasId, uiOp.images, ok)
    /\ showHistory' = ShowAfterSave(ok)
    /\ uiOp' = NoOp
    /\ history' = [history EXCEPT !.failed =
                     SaveOutcome("history", db, uiOp.canvasId, uiOp.images, ok)]
    /\ budget' = Tick(budget)
    /\ UNCHANGED <<appVars, canvasVars, cardVars, mouse, canvasId>>

\* a click on the backdrop or on the close button of the modal
\* (part_000:1225-1229)
CloseHistory ==
    /\ CanStep
    /\ UNCHANGED boot
    /\ showHistory
    /\ uiOp.pc = "idle"
    /\ showHistory' = FALSE
    /\ budget' = Tick(budget)
    /\ UNCHANGED <<appVars, canvasVars, cardVars, mouse, canvasId, db, uiOp,
                   historyList, history>>

\* a click on an entry of the history modal (part_000:1238), then
\* handleLoadCanvas (part_000:824-853) up to its first await: the save of a
\* non-empty canvas, else the load
LoadCanvasStart(id) ==
    /\ CanStep
    /\ UNCHANGED boot
    /\ uiOp.pc = "idle"
    /\ showHistory
    /\ budget.switches > 0
    /\ uiOp' = [pc |-> IF Len(images) > 0 THEN "loadSaving" ELSE "loading",
                id |-> id, canvasId |-> canvasId, images |-> images]
    /\ budget' = Tick([budget EXCEPT !.switches = @ - 1])
    /\ UNCHANGED <<appVars, canvasVars, cardVars, mouse, canvasId, db,
                   historyList, showHistory, history>>

\* the save of handleLoadCanvas settles (part_000:826-832)
LoadCanvasSaved(ok) ==
    /\ CanStep
    /\ UNCHANGED boot
    /\ uiOp.pc = "loadSaving"
    /\ db' = saveCurrentData(db, uiOp.canvasId, uiOp.images, ok)
    /\ historyList' = saveHistoryList(historyList, uiOp.canvasId, uiOp.images, ok)
    /\ uiOp' = [uiOp EXCEPT !.pc = "loading"]
    /\ history' = [history EXCEPT !.failed =
                     SaveOutcome("load", db, uiOp.canvasId, uiOp.images, ok)]
    /\ budget' = Tick(budget)
    /\ UNCHANGED <<appVars, canvasVars, cardVars, mouse, canvasId, showHistory>>

\* loadCanvasFromDB settles (part_000:834-852): the record replaces the
\* collection; with no record the user is asked whether to remove the entry
\* and answers; a failed read shows an alert and changes nothing
LoadCanvasLoaded(ok, remove) ==
    /\ CanStep
    /\ UNCHANGED boot
    /\ uiOp.pc = "loading"
    /\ LET data == loadCanvasFromDB(db, uiOp.id)
       IN IF ok /\ data # <<Undefined>>
          THEN /\ canvasId' = uiOp.id
               /\ images' = data
               /\ selectedId' = NullId
               /\ db' = [db EXCEPT !.last = uiOp.id]
               /\ historyList' = historyList
               /\ showHistory' = FALSE
               /\ history' = [history EXCEPT !.wiped = @ \cup (Ids(images) \ Ids(data)),
                                             !.loaded = TRUE, !.answer = "none"]
          ELSE /\ historyList' = IF ok /\ remove THEN RemoveEntry(historyList, uiOp.id)
                                 ELSE historyList
               /\ history' = [history EXCEPT !.answer =
                                IF ~ok THEN "alert"
                                ELSE IF remove THEN "remove" ELSE "keep"]
               /\ UNCHANGED <<canvasId, images, selectedId, db, showHistory>>
    /\ uiOp' = NoOp
    /\ dragStartRef' = Unmount(dragStartRef, images')
    /\ budget' = Tick(budget)
    /\ UNCHANGED <<status, now, apiKey, batches, canvasVars, listeners, mouse>>

---------------------------------------------------------------------------
(* The mount (part_000:700-733): initStorage reads the history index, the
   last canvas id and the canvas of that id, each read an await of its own;
   the effect that saves the history index runs at the mount, with the empty
   initial list, and again after every setHistoryList.  Each put and each
   get is a transaction of its own (storage.ts:46-66). *)

\* a key of the meta store that was never written: get gives undefined
NoCanvasId == [tag |-> "none", ts |-> 0]
NoIndex == <<NoCanvasId>>

\* the entries of a stored index
Entries(index) == IF index = NoIndex THEN <<>> ELSE index

\* the puts the index effect starts at the mount (part_000:730-733): one, of
\* the initial list
IndexEffectAtMount(list) == <<list>>

\* loadMetaFromDB('morisot_history_index') settles (part_000:704-708): an
\* index that is there, the empty one too, is set, and the index effect
\* starts a put of it; a rejection ends initStorage in its catch
IndexGet(ok) ==
    /\ CanStep
    /\ boot.pc = "indexGet"
    /\ IF ~ok
       THEN /\ boot' = [boot EXCEPT !.pc = "done"]
            /\ historyList' = historyList
       ELSE IF db.index = NoIndex
       THEN /\ boot' = [boot EXCEPT !.pc = "lastGet"]
            /\ historyList' = historyList
       ELSE /\ boot' = [boot EXCEPT !.pc = "lastGet", !.puts = Append(@, db.index)]
            /\ historyList' = db.index
    /\ budget' = Tick(budget)
    /\ UNCHANGED <<appVars, canvasVars, cardVars, mouse, canvasId, db, uiOp,
                   showHistory, history>>

\* the oldest put of the index effect settles (part_000:732, storage.ts:46-55)
IndexPut(ok) ==
    /\ CanStep
    /\ boot.puts # <<>>
    /\ db' = IF ok THEN [db EXCEPT !.index = Head(boot.puts)] ELSE db
    /\ boot' = [boot EXCEPT !.puts = Tail(@)]
    /\ budget' = Tick(budget)
    /\ UNCHANGED <<appVars, canvasVars, cardVars, mouse, canvasId, uiOp,
                   historyList, showHistory, history>>

\* loadMetaFromDB('morisot_last_canvas_id') settles (part_000:710-711)
LastGet(ok) ==
    /\ CanStep
    /\ boot.pc = "lastGet"
    /\ boot' = IF ok /\ db.last # NoCanvasId
               THEN [boot EXCEPT !.pc = "canvasGet", !.lastId = db.last]
               ELSE [boot EXCEPT !.pc = "done"]
    /\ budget' = Tick(budget)
    /\ UNCHANGED <<appVars, canvasVars, cardVars, mouse, canvasId, db, uiOp,
                   historyList, showHistory, history>>

\* loadCanvasFromDB(lastId) settles (part_000:712-721): the saved canvas, or
\* an empty canvas of that id
CanvasGet(ok) ==
    /\ CanStep
    /\ boot.pc = "canvasGet"
    /\ LET savedCanvas == loadCanvasFromDB(db, boot.lastId)
       IN IF ~ok
          THEN UNCHANGED <<canvasId, images>>
          ELSE /\ canvasId' = boot.lastId
               /\ images' = IF savedCanvas # <<Undefined>> THEN savedCanvas ELSE <<>>
    /\ boot' = [boot EXCEPT !.pc = "done"]
    /\ dragStartRef' = Unmount(dragStartRef, images')
    /\ budget' = Tick(budget)
    /\ UNCHANGED <<selectedId, status, now, apiKey, batches, canvasVars, listeners,
                   mouse, db, uiOp, historyList, showHistory, history>>

---------------------------------------------------------------------------
(* The specifications *)

\* the canvas saved by an earlier session and loaded by initStorage
\* (part_000:702-727): a generated image and an image derived from it
SavedImage ==
    [id |-> PlaceholderId(0, 0), url |-> DataUrl, prompt |-> "cat",
     timestamp |-> 0, isLoading |-> FALSE, x |-> 500, y |-> 400,
     rotation |-> 0, scale |-> Milli, parentId |-> NullId]

SavedChild ==
    [id |-> PlaceholderId(0, 1), url |-> DataUrl, prompt |-> "cat",
     timestamp |-> 0, isLoading |-> FALSE, x |-> 500, y |-> 800,
     rotation |-> 0, scale |-> Milli, parentId |-> SavedImage.id]

SavedCanvas == <<SavedImage, SavedChild>>

\* the id of the canvas of the last session
SavedCanvasId == NewCanvasId(0)

\* a canvas of an earlier session whose record is no longer in the database
LostCanvasId == NewCanvasId(-1)

\* the history index of the last session (part_000:704-708): the canvas of
\* the last session, and an entry whose record is missing
SavedHistory == <<SavedCanvasId, LostCanvasId>>

\* the database an earlier session left: the saved canvas, last visited, and
\* the history index
SavedDb == [canvases |-> (SavedCanvasId :> SavedCanvas), last |-> SavedCanvasId,
            index |-> SavedHistory]

\* the mount is over: initStorage has returned and no put is under way
Booted == [pc |-> "done", puts |-> <<>>, index0 |-> SavedHistory,
           lastId |-> SavedCanvasId]

InitUi ==
    /\ selectedId = NullId
    /\ status = "IDLE"
    /\ now = 0
    /\ apiKey \in BOOLEAN
    /\ batches = <<>>
    /\ view = [x |-> 0, y |-> 0, k |-> Milli]
    /\ isPanning = FALSE
    /\ draggedImageId = NullId
    /\ lastMousePos = [x |-> 0, y |-> 0]
    /\ showLines = TRUE
    /\ dragStartRef = [id \in {} |-> [x |-> 0, y |-> 0]]
    /\ listeners = <<>>
    /\ mouse = [x |-> 0, y |-> 0, buttons |-> {}, downOn |-> NullId, inside |-> TRUE]
    /\ showHistory = FALSE
    /\ uiOp = NoOp
    /\ history = [deleted |-> {}, editedLoading |-> {}, wiped |-> {},
                  loaded |-> FALSE, overlap |-> FALSE, answer |-> "none",
                  failed |-> "none"]

\* the App after its mount: initStorage has set the history index of the
\* last session (part_000:704-708)
InitCommon ==
    /\ InitUi
    /\ db = SavedDb
    /\ historyList = SavedHistory
    /\ boot = Booted

\* The App: a fresh canvas, or the canvas of the last session
Init ==
    /\ InitCommon
    /\ images \in {<<>>, SavedCanvas}
    /\ canvasId = IF images = <<>> THEN DefaultCanvasId ELSE SavedCanvasId
    /\ budget = [submits |-> MaxSubmits, user |-> MaxUserOps,
                 deletes |-> MaxDeletes, switches |-> 0, saves |-> 0, bounded |-> FALSE,
                 events |-> 0]

Next ==
    \/ \E sub \in Submissions, rnd \in RandomStreams :
          Generate(sub.prompt, sub.file, rnd)
    \/ \E b \in 1..Len(batches), ok \in BOOLEAN, rnd \in RandomStreams :
          FileRead(b, ok, rnd)
    \/ \E b \in 1..Len(batches), ok \in BOOLEAN, rnd \in RandomStreams :
          UrlFetched(b, ok, rnd)
    \/ \E b \in 1..Len(batches), k \in 1..SpawnCount, response \in Responses :
          Settle(b, k, response)
    \/ \E id \in Ids(images) \cup {EmptyId} : Select(id)
    \/ \E id \in Ids(images) : \E updates \in Updates(Find(images, id)) :
          UpdateImage(id, updates)
    \/ \E id \in Ids(images) : DeleteClick(id)

Spec == Init /\ [][Next]_vars

\* The whole application under pointer events: every run of at most
\* MaxEvents events from the canvas of the last session
InitCanvas ==
    /\ InitCommon
    /\ images = SavedCanvas
    /\ canvasId = SavedCanvasId
    /\ budget = [submits |-> MaxSubmits, user |-> 0,
                 deletes |-> MaxDeletes, switches |-> 0, saves |-> 0, bounded |-> TRUE,
                 events |-> MaxEvents]

NextCanvas ==
    \/ \E sub \in Submissions, rnd \in RandomStreams :
          Generate(sub.prompt, sub.file, rnd)
    \/ \E b \in 1..Len(batches), ok \in BOOLEAN, rnd \in RandomStreams :
          FileRead(b, ok, rnd)
    \/ \E b \in 1..Len(batches), ok \in BOOLEAN, rnd \in RandomStreams :
          UrlFetched(b, ok, rnd)
    \/ \E b \in 1..Len(batches), k \in 1..SpawnCount, response \in Responses :
          Settle(b, k, response)
    \/ \E deltaY \in WheelDeltas : Wheel(deltaY)
    \/ \E button \in Buttons : CanvasMouseDown(button)
    \/ \E id \in Ids(images), button \in Buttons : CardMouseDown(id, button)
    \/ \E id \in Ids(images), kind \in {"rotate", "resize"}, button \in Buttons,
          off \in {<<0, 200>>, <<-200, 0>>} :
          HandleMouseDown(id, kind, button, off)
    \/ \E d \in MoveDeltas : MouseMove(d)
    \/ \E button \in Buttons, onSameCard \in BOOLEAN : MouseUp(button, onSameCard)
    \/ MouseLeave
    \/ MouseEnter
    \/ \E id \in Ids(images) : DeleteClick(id)
    \/ ToggleLines

SpecCanvas == InitCanvas /\ [][NextCanvas]_vars

\* The App and its persistence: a submit of a prompt, its requests, the
\* history modal and switches of canvas, from the canvas of the last session.
\* The requests of the batch are answered in the order sent (Spec has every
\* order, SpecOverlap the submits of a file).
InitStore ==
    /\ InitCommon
    /\ images = SavedCanvas
    /\ canvasId = SavedCanvasId
    /\ budget = [submits |-> MaxSubmits, user |-> 0, deletes |-> 0,
                 switches |-> MaxSwitches, saves |-> 0,
                 bounded |-> FALSE, events |-> 0]

NextStore ==
    \/ Generate("cat", FALSE, CHOOSE rnd \in RandomStreams : TRUE)
    \/ \E b \in 1..Len(batches), k \in 1..SpawnCount, response \in Responses :
          /\ k \in 1..Len(batches[b].requests)
          /\ \A j \in 1..(k - 1) : batches[b].requests[j] # "pending"
          /\ Settle(b, k, response)
    \/ NewCanvasStart(TRUE)
    \/ \E ok \in BOOLEAN : NewCanvasSaved(ok)
    \/ OpenHistoryStart
    \/ \E ok \in BOOLEAN : OpenHistorySaved(ok)
    \/ CloseHistory
    \/ \E j \in 1..Len(historyList) : LoadCanvasStart(historyList[j])
    \/ \E ok \in BOOLEAN : LoadCanvasSaved(ok)
    \/ \E ok \in BOOLEAN, remove \in BOOLEAN : LoadCanvasLoaded(ok, remove)

SpecStore == InitStore /\ [][NextStore]_vars

\* Batches in flight together: a new canvas opened while a batch is in
\* flight sets the status back to IDLE (part_000:806), which enables the
\* next submit; a submit suspended at the read of its file (part_000:867)
\* then adds its nodes to the new canvas.  Submits of a readable file, each
\* batch answered in the order sent, the batches interleaving freely.
InitOverlap ==
    /\ InitCommon
    /\ images = SavedCanvas
    /\ canvasId = SavedCanvasId
    /\ budget = [submits |-> MaxOverlapSubmits, user |-> 0, deletes |-> 0,
                 switches |-> MaxOverlapSwitches, saves |-> 0,
                 bounded |-> FALSE, events |-> 0]

NextOverlap ==
    \/ Generate("", TRUE, CHOOSE rnd \in RandomStreams : TRUE)
    \/ \E b \in 1..Len(batches) :
          FileRead(b, TRUE, CHOOSE rnd \in RandomStreams : TRUE)
    \/ \E b \in 1..Len(batches), k \in 1..SpawnCount, response \in Responses :
          /\ k \in 1..Len(batches[b].requests)
          /\ \A j \in 1..(k - 1) : batches[b].requests[j] # "pending"
          /\ Settle(b, k, response)
    \/ NewCanvasStart(TRUE)
    \/ \E ok \in BOOLEAN : NewCanvasSaved(ok)

SpecOverlap == InitOverlap /\ [][NextOverlap]_vars

\* A session at the canvas: the user selects and deletes nodes, submits a
\* prompt, opens a new canvas, opens the history and loads from it, and the
\* auto-save runs, from the canvas of the last session, all while the
\* requests of the submit are still unanswered (Spec and SpecStore have
\* the answers).
InitSession ==
    /\ InitCommon
    /\ images = SavedCanvas
    /\ canvasId = SavedCanvasId
    /\ budget = [submits |-> MaxSubmits, user |-> MaxSessionOps,
                 deletes |-> MaxSessionDeletes, switches |-> MaxSwitches,
                 saves |-> MaxAutoSaves, bounded |-> FALSE, events |-> 0]

NextSession ==
    \/ Generate("cat", FALSE, CHOOSE rnd \in RandomStreams : TRUE)
    \/ \E id \in Ids(images) \cup {EmptyId} : Select(id)
    \/ \E id \in Ids(images) : DeleteClick(id)
    \/ AutoSave
    \/ \E accept \in BOOLEAN : NewCanvasStart(accept)
    \/ \E ok \in BOOLEAN : NewCanvasSaved(ok)
    \/ OpenHistoryStart
    \/ \E ok \in BOOLEAN : OpenHistorySaved(ok)
    \/ CloseHistory
    \/ \E j \in 1..Len(historyList) : LoadCanvasStart(historyList[j])
    \/ \E ok \in BOOLEAN : LoadCanvasSaved(ok)
    \/ \E ok \in BOOLEAN, remove \in BOOLEAN : LoadCanvasLoaded(ok, remove)

SpecSession == InitSession /\ [][NextSession]_vars

\* The mount of the App on the database of an earlier session: no index,
\* an empty one, or one with entries; no last canvas, one with a record, or
\* one without.  The gets of initStorage and the puts of the index effect
\* settle in every order, each with success or failure.
InitStartup ==
    /\ InitUi
    /\ images = <<>>
    /\ canvasId = DefaultCanvasId
    /\ historyList = <<>>
    /\ db \in {[canvases |-> SavedDb.canvases, last |-> last, index |-> index] :
                 last \in {NoCanvasId, SavedCanvasId, LostCanvasId},
                 index \in {NoIndex, <<>>, <<SavedCanvasId>>, SavedHistory}}
    /\ boot = [pc |-> "indexGet", puts |-> IndexEffectAtMount(historyList),
               index0 |-> db.index, lastId |-> NoCanvasId]
    /\ budget = [submits |-> 0, user |-> 0, deletes |-> 0, switches |-> 0,
                 saves |-> 0, bounded |-> FALSE, events |-> 0]

NextStartup ==
    \/ \E ok \in BOOLEAN : IndexGet(ok)
    \/ \E ok \in BOOLEAN : IndexPut(ok)
    \/ \E ok \in BOOLEAN : LastGet(ok)
    \/ \E ok \in BOOLEAN : CanvasGet(ok)

SpecStartup == InitStartup /\ [][NextStartup]_vars

---------------------------------------------------------------------------
(* Properties *)

Fired(b) == batches[b].pc = "fired"
BatchIds(b) == {batches[b].newPlaceholders[k].id :
                   k \in 1..Len(batches[b].newPlaceholders)}
KeysWith(b, results) == {k \in 1..Len(batches[b].requests) :
                            batches[b].requests[k] \in results}
Succeeded(b) == {batches[b].newPlaceholders[k].id : k \in KeysWith(b, {DataUrl})}
AllSettledIn(bs, b) == /\ bs[b].pc = "fired"
                       /\ \A k \in 1..Len(bs[b].requests) : bs[b].requests[k] # "pending"
AllSettled(b) == AllSettledIn(batches, b)
NoUserChange == /\ history.deleted = {}
                /\ budget.user = MaxUserOps
                /\ ~budget.bounded

\* C1: once all 5 calls of a batch have settled, the nodes of the batch in
\* the collection are exactly the placeholders whose call succeeded (and
\* that the user has not deleted since), and the status is Success.
C1_BatchLeavesExactlyTheSuccesses ==
    \A b \in 1..Len(batches) :
        AllSettled(b) =>
            /\ Ids(images) \cap BatchIds(b) = Succeeded(b) \ history.deleted
            /\ (b = Len(batches) => status = "SUCCESS")

\* C2: a request whose promise rejected has had its placeholder removed
\* from the collection, as one that returned none has.
C2_RejectedPlaceholderRemoved ==
    \A b \in 1..Len(batches) :
        \A k \in KeysWith(b, {"rejected", NullUrl}) :
            batches[b].newPlaceholders[k].id \notin Ids(images)

\* C3: a step that settles a request of a batch leaves the status alone
\* while the batch still has an unsettled request and sets it to Success
\* when it settles the last one; the status becomes Success in no other
\* step.
C3_SuccessExactlyAtLastSettle ==
    [][ /\ \A b \in 1..Len(batches) :
              (Fired(b) /\ batches'[b].activeRequests # batches[b].activeRequests) =>
                  IF AllSettledIn(batches', b) THEN status' = "SUCCESS"
                  ELSE status' = status
        /\ (status' = "SUCCESS" /\ status # "SUCCESS") =>
              \E b \in 1..Len(batches) :
                  Fired(b) /\ ~AllSettled(b) /\ AllSettledIn(batches', b)
      ]_vars

C3_Witness ==
    \E b \in 1..Len(batches) :
        /\ AllSettled(b)
        /\ status = "SUCCESS"
        /\ KeysWith(b, {DataUrl}) # {}
        /\ KeysWith(b, {NullUrl}) # {}

\* C4: the status is never Error, and once all five requests of a batch
\* have failed the status is Success and no placeholder of the batch is in
\* the collection.
C4_AllFailedIsSuccessAndEmpty ==
    /\ status # "ERROR"
    /\ \A b \in 1..Len(batches) :
          (AllSettled(b) /\ Succeeded(b) = {}) =>
              /\ (b = Len(batches) => status = "SUCCESS")
              /\ Ids(images) \cap BatchIds(b) = {}

\* the collection a batch starts from, rebuilt from its closure: the
\* collection of the call, the reference node when the file was read, the
\* placeholders
BaseOf(b) ==
    LET call == batches[b]
        ref == RefImageNode(call.images, call.timestamp)
    IN (IF call.parentImage = ref THEN Append(call.images, ref) ELSE call.images)
       \o call.newPlaceholders

RECURSIVE InIndexOrder(_, _, _)
InIndexOrder(b, k, imgs) ==
    IF k > Len(batches[b].requests) THEN imgs
    ELSE InIndexOrder(b, k + 1,
            IF batches[b].requests[k] = "rejected" THEN imgs
            ELSE ApplyResult(imgs, batches[b].newPlaceholders[k].id,
                             batches[b].requests[k]))

PendingIds == UNION {{batches[b].newPlaceholders[k].id : k \in KeysWith(b, {"pending"})} :
                        b \in {b \in 1..Len(batches) : Fired(b)}}

\* C5: the results of two requests in flight give the same collection in
\* either order of arrival, whatever the two results are; and once a batch
\* has settled with no change by the user, the collection is the one the
\* results give when applied in index order, whatever the order they
\* arrived in.
C5_ArrivalOrderIrrelevant ==
    /\ \A p, q \in PendingIds : \A u, v \in {DataUrl, NullUrl} :
          p # q => ApplyResult(ApplyResult(images, p, u), q, v)
                     = ApplyResult(ApplyResult(images, q, v), p, u)
    /\ \A b \in 1..Len(batches) :
          (AllSettled(b) /\ b = Len(batches) /\ NoUserChange) =>
              images = InIndexOrder(b, 1, BaseOf(b))

C5_Witness ==
    \E b \in 1..Len(batches) :
        /\ AllSettled(b)
        /\ NoUserChange
        /\ Cardinality(KeysWith(b, {DataUrl})) >= 2
        /\ KeysWith(b, {NullUrl}) # {}
        /\ images = InIndexOrder(b, 1, BaseOf(b))

\* C6: a step in which a request succeeds changes, in the whole collection,
\* only url and isLoading of the node of its placeholder: the sequence
\* keeps its length and order, and every other field and every other node
\* is as the step found it.
C6_SuccessUpdatesInPlace ==
    [][ \A b \in 1..Len(batches) : \A k \in KeysWith(b, {"pending"}) :
           batches'[b].requests[k] = DataUrl =>
               images' = [j \in 1..Len(images) |->
                            IF images[j].id = batches[b].newPlaceholders[k].id
                            THEN [images[j] EXCEPT !.url = DataUrl, !.isLoading = FALSE]
                            ELSE images[j]]
      ]_vars

C6_Witness ==
    \E b \in 1..Len(batches) : \E k \in KeysWith(b, {DataUrl}) :
        LET created == batches[b].newPlaceholders[k]
            node == Find(images, created.id)
        IN /\ created.id \in history.editedLoading
           /\ node # Undefined
           /\ ~node.isLoading
           /\ node.url = DataUrl
           /\ \/ node.x # created.x
              \/ node.rotation # created.rotation
              \/ node.scale # created.scale

\* C7: a step that deletes id takes exactly one node out of the sequence,
\* the one with that id, and leaves every other node, the children of id
\* included, in place with all its fields.
C7_DeleteRemovesOnlyThatNode ==
    [][ \A id \in history'.deleted \ history.deleted :
           \E p \in 1..Len(images) :
               /\ images[p].id = id
               /\ images' = SubSeq(images, 1, p - 1) \o SubSeq(images, p + 1, Len(images))
      ]_vars

C7_Witness ==
    /\ history.deleted # {}
    /\ \E j \in 1..Len(images) :
          /\ images[j].parentId \in history.deleted
          /\ images[j].parentId \notin Ids(images)

\* C8: with the links shown, renderLines draws a connector for a node if
\* and only if the node's parentId is the id of a node of the collection;
\* with the links hidden it draws none; and it never reads a missing parent.
C8_ConnectorIffParentPresent ==
    LET lines == renderLines(showLines, images)
    IN IF showLines
       THEN /\ Len(lines) = Len(images)
            /\ \A j \in 1..Len(images) :
                  /\ lines[j] # "TypeError"
                  /\ lines[j] = "path" <=> images[j].parentId \in Ids(images)
       ELSE lines = <<>>

C8_Witness ==
    /\ showLines
    /\ \E j \in 1..Len(images) :
          /\ Truthy(images[j].parentId)
          /\ images[j].parentId \notin Ids(images)
          /\ renderLines(showLines, images)[j] = "null"
    /\ \E j \in 1..Len(images) : renderLines(showLines, images)[j] = "path"

\* C9: a step that deletes id leaves no selection when id was the selected
\* node, and the selection it found otherwise.
C9_DeleteClearsOwnSelection ==
    [][ \A id \in history'.deleted \ history.deleted :
           selectedId' = IF selectedId = id THEN NullId ELSE selectedId
      ]_vars

C9_Witness ==
    /\ history.deleted # {}
    /\ selectedId = NullId
    /\ budget.deletes < MaxDeletes

\* C10: the zoom is within [0.1, 4.0] and the scale of every node is at
\* least 0.2.
C10_ZoomAndScaleClamped ==
    /\ ZoomMin <= view.k
    /\ view.k <= ZoomMax
    /\ \A j \in 1..Len(images) : images[j].scale >= ScaleMin

C10_Witness ==
    /\ view.k = ZoomMin
    /\ \E j \in 1..Len(images) : images[j].scale = ScaleMin

\* the screen points the round trip is taken at, besides the pointer's
ScreenPoints == {-5, 0, 3, 40, 777}

\* C11: a wheel step leaves the world point under the pointer under the
\* pointer: the world point that mapped to the pointer's position in the
\* viewport before the step maps to it in the viewport after the step, the
\* steps that clamp the zoom at 0.1 or at 4.0 included.
C11_ZoomKeepsPointUnderPointer ==
    [][ (mouse' = mouse /\ view' # view) =>
           /\ worldToScreen(screenToWorld(mouse.x, view.x, view.k), view'.x, view'.k)
                 = mouse.x
           /\ worldToScreen(screenToWorld(mouse.y, view.y, view.k), view'.y, view'.k)
                 = mouse.y
      ]_vars

C11_Witness ==
    /\ view.k \in {ZoomMin, ZoomMax}
    /\ view.x # 0
    /\ mouse.x # 0
    /\ worldToScreen(screenToWorld(mouse.x, 0, Milli), view.x, view.k) = mouse.x

\* C12: in every viewport the application reaches (zoom within [0.1, 4.0])
\* and for every screen point P, mapping P to the world and back gives P.
C12_ScreenWorldRoundTrip ==
    \A p \in ScreenPoints \cup {mouse.x, mouse.y} :
        /\ worldToScreen(screenToWorld(p, view.x, view.k), view.x, view.k) = p
        /\ worldToScreen(screenToWorld(p, view.y, view.k), view.y, view.k) = p

C12_Witness ==
    /\ view.k \notin {Milli, ZoomMin, ZoomMax}
    /\ view.x # 0
    /\ view.y # 0
    /\ view.x # view.y

\* the anchors and the streams of draws the layout is computed for
Anchors == {<<100, 200>>, <<500, 400>>, <<-7, 0>>}
AllStreams == {[d \in 0..(2 * SpawnCount - 1) |-> (d + s) % 3] : s \in 0..2}

\* C13: for 5 positions around the anchor (px, py) the layout gives
\* x_i = px + (i - 2) * 320 and py + 380 <= y_i <= py + 420, whatever the
\* random draws; around (100, 200) the x are -540, -220, 100, 420, 740 and
\* every y is within [580, 620]; and the placeholders of every batch stand
\* at such positions around the anchor of the batch.
C13_SpawnLayout ==
    /\ \A a \in Anchors, rnd \in AllStreams :
          LET positions == calculateSpawnPositions(5, a[1], a[2], rnd)
          IN /\ Len(positions) = 5
             /\ \A k \in 1..5 :
                   /\ positions[k].x = a[1] + ((k - 1) - 2) * 320
                   /\ a[2] + 380 <= positions[k].y
                   /\ positions[k].y <= a[2] + 420
    /\ \A rnd \in AllStreams :
          LET positions == calculateSpawnPositions(5, 100, 200, rnd)
          IN /\ [k \in 1..5 |-> positions[k].x] = <<-540, -220, 100, 420, 740>>
             /\ \A k \in 1..5 : 580 <= positions[k].y /\ positions[k].y <= 620
    /\ \A b \in 1..Len(batches) :
          Fired(b) =>
              /\ Len(batches[b].newPlaceholders) = 5
              /\ \A k \in 1..5 :
                    LET created == batches[b].newPlaceholders[k]
                    IN /\ created.x = batches[b].spawnSourceX + ((k - 1) - 2) * 320
                       /\ batches[b].spawnSourceY + 380 <= created.y
                       /\ created.y <= batches[b].spawnSourceY + 420

C13_Witness ==
    \E b \in 1..Len(batches) :
        /\ Fired(b)
        /\ batches[b].spawnSourceX = 500
        /\ batches[b].spawnSourceY = 400
        /\ [k \in 1..5 |-> batches[b].newPlaceholders[k].x]
              = <<-140, 180, 500, 820, 1140>>
        /\ \E k \in 1..5 : batches[b].newPlaceholders[k].y # 800
        /\ \A k \in 1..5 : Find(images, batches[b].newPlaceholders[k].id) # Undefined

\* the anchor the priority policy gives for a submit: the placement of the
\* reference image when a file is supplied, else the position of the node
\* selected at the submit, else 400 to the right of the rightmost node at
\* the fixed y, else the default position
PolicyAnchor(call) ==
    IF call.file
    THEN IF Len(call.images) > 0
         THEN [x |-> MaxX(call.images) + 400, y |-> 200]
         ELSE [x |-> WindowInnerWidth \div 2 - 140, y |-> 100]
    ELSE IF call.parentImage # Undefined
    THEN [x |-> call.parentImage.x, y |-> call.parentImage.y]
    ELSE IF Len(call.images) > 0
    THEN [x |-> MaxX(call.images) + 400, y |-> 400]
    ELSE [x |-> 500, y |-> 400]

\* the file of the submit was read and its reference node placed
RefPlaced(call) == call.file /\ call.parentImage.id = RefImageId(call.timestamp)

\* C14: the anchor every submit spawns its placeholders around is the one
\* the priority policy gives: reference image, else selected node, else
\* right of the rightmost node, else the default.  (A submit whose file
\* could not be read has no reference image; the policy is not applied to it.)
C14_AnchorPriority ==
    \A b \in 1..Len(batches) :
        (Fired(b) /\ (batches[b].file => RefPlaced(batches[b]))) =>
            /\ batches[b].spawnSourceX = PolicyAnchor(batches[b]).x
            /\ batches[b].spawnSourceY = PolicyAnchor(batches[b]).y

\* batch b creates its placeholders in this step
Fires(b) ==
    /\ b \in 1..Len(batches')
    /\ batches'[b].pc = "fired"
    /\ (b \in 1..Len(batches) => batches[b].pc # "fired")

\* C15: when a submit with a file, made on an empty collection, has read its
\* file, it inserts a reference node that is not loading at
\* (windowWidth / 2 - 140, 100) and, after it, 5 placeholders whose
\* parentId is the id of that reference node.
C15_ReferenceNodeOnEmptyCanvas ==
    [][ \A b \in 1..Len(batches) :
           (Fires(b) /\ batches[b].images = <<>> /\ RefPlaced(batches'[b])) =>
               LET n == Len(images)
                   ref == images'[n + 1]
               IN /\ Len(images') = n + 6
                  /\ SubSeq(images', 1, n) = images
                  /\ ref.id = RefImageId(batches[b].timestamp)
                  /\ ~ref.isLoading
                  /\ ref.x = WindowInnerWidth \div 2 - 140
                  /\ ref.y = 100
                  /\ \A k \in 1..5 :
                        /\ images'[n + 1 + k].isLoading
                        /\ images'[n + 1 + k].parentId = ref.id
      ]_vars

C15_Witness ==
    \E b \in 1..Len(batches) :
        /\ Fired(b)
        /\ batches[b].images = <<>>
        /\ RefPlaced(batches[b])
        /\ Len(images) = 6
        /\ images[1].id = RefImageId(batches[b].timestamp)
        /\ images[1].x = 500 /\ images[1].y = 100
        /\ \A k \in 2..6 : images[k].parentId = images[1].id

\* the id of the source node a submit resolved: the reference node it
\* placed, else the node selected at the submit, else none
SourceId(call) ==
    IF RefPlaced(call) THEN RefImageId(call.timestamp)
    ELSE IF call.parentImage # Undefined THEN call.parentImage.id
    ELSE NullId

\* C19: the step in which a submit creates its placeholders appends exactly
\* 5 nodes (after the reference node, when it places one), each loading,
\* with an empty url, scale 1, a rotation within [-3, 3] and, as parentId,
\* the id of the source node the submit resolved, or none when it has none.
C19_FivePlaceholdersPerSubmit ==
    [][ \A b \in 1..Len(batches') :
           Fires(b) =>
               LET call == batches'[b]
                   r == IF RefPlaced(call) THEN 1 ELSE 0
                   n == Len(images) + r
               IN /\ Len(images') = n + 5
                  /\ SubSeq(images', 1, Len(images)) = images
                  /\ (r = 1 => ~images'[n].isLoading)
                  /\ \A k \in 1..5 :
                        /\ images'[n + k].isLoading
                        /\ images'[n + k].url = ""
                        /\ images'[n + k].scale = 1000
                        /\ images'[n + k].rotation >= -3
                        /\ images'[n + k].rotation <= 3
                        /\ images'[n + k].parentId = SourceId(call)
      ]_vars

C19_Witness ==
    /\ \E b \in 1..Len(batches) :
          /\ Fired(b)
          /\ ~batches[b].file
          /\ Truthy(SourceId(batches[b]))
          /\ \A k \in 1..5 :
                Find(images, batches[b].newPlaceholders[k].id).parentId
                   = SourceId(batches[b])
    /\ Len(images) = Len(SavedCanvas) + 5

\* the primary button went down on the body of card id and is still down,
\* the pointer over the canvas
PressedOn(id) ==
    /\ 0 \in mouse.buttons
    /\ mouse.inside
    /\ mouse.downOn = id
    /\ draggedImageId = id
    /\ id \in DOMAIN dragStartRef

\* C16: when the primary button is released on the node it went down on,
\* the node's selection is toggled if the pointer is less than 5 px from
\* where it went down, and the node is the selected one otherwise, whether
\* or not it was selected before.
C16_ClickTogglesDragSelects ==
    \A id \in Ids(images) :
        PressedOn(id) =>
            LET dx == mouse.x - dragStartRef[id].x
                dy == mouse.y - dragStartRef[id].y
                after == ClickSelection(selectedId, dragStartRef, id, mouse.x, mouse.y)
            IN IF dx * dx + dy * dy < 5 * 5
               THEN after = IF selectedId = id THEN NullId ELSE id
               ELSE after = id

\* the id, position, rotation and scale of each node, in order
Core(imgs) ==
    [k \in 1..Len(imgs) |->
        <<imgs[k].id, imgs[k].x, imgs[k].y, imgs[k].rotation, imgs[k].scale>>]

\* the step writes the record of a canvas
Saves(id) ==
    /\ id \in DOMAIN db'.canvases
    /\ id \notin DOMAIN db.canvases \/ db'.canvases[id] # db.canvases[id]

\* C17: saving a canvas with K nodes and then loading it by its id yields
\* the same K nodes in the same order, each with the same id, x, y, rotation
\* and scale: every save writes under the id of the saved canvas a record
\* with the nodes of the collection it was called with (the live one for the
\* auto-save, the one the handler was called on for the save before a
\* switch or before the history opens), and every load replaces the live collection by the nodes of the
\* record of the id asked for.
C17_SaveLoadRoundTrip ==
    [][ /\ \A id \in DOMAIN db'.canvases :
              Saves(id) =>
                 IF uiOp.pc \in {"newSaving", "historySaving", "loadSaving"}
                       /\ uiOp' # uiOp
                 THEN id = uiOp.canvasId
                      /\ Core(db'.canvases[id]) = Core(uiOp.images)
                 ELSE id = canvasId
                      /\ Core(db'.canvases[id]) = Core(images)
        /\ (uiOp.pc = "loading" /\ uiOp'.pc = "idle"
               /\ (images' # images \/ canvasId' # canvasId \/ db' # db))
             => /\ canvasId' = uiOp.id
                /\ Core(images') = Core(db.canvases[uiOp.id])
      ]_vars

\* a canvas that grew in this run, was saved, left for a new one and loaded
\* back: the live collection has the nodes of its record
C17_Witness ==
    /\ history.loaded
    /\ uiOp.pc = "idle"
    /\ canvasId = SavedCanvasId
    /\ Len(images) > Len(SavedCanvas)
    /\ \E k \in 1..Len(images) : images[k].rotation # 0
    /\ Core(images) = Core(db.canvases[canvasId])
    /\ history.wiped # {}

\* the nodes of batch b that are in the collection
Present(b) ==
    {k \in 1..Len(batches[b].newPlaceholders) :
        batches[b].newPlaceholders[k].id \in Ids(images)}

\* C18: in every reachable state the ids of the nodes of the live collection
\* are pairwise distinct.
C18_IdsPairwiseDistinct ==
    \A j, k \in 1..Len(images) : images[j].id = images[k].id => j = k

\* the collection holds the nodes of the last session and nodes of two
\* batches
C18_Witness ==
    /\ Len(batches) = 2
    /\ Present(1) # {}
    /\ Present(2) # {}
    /\ SavedImage.id \in Ids(images)
    /\ Len(images) > Len(SavedCanvas) + SpawnCount

\* the collection without the node id
Others(imgs, id) == SelectSeq(imgs, LAMBDA img : img.id # id)

\* C20: when two batches are in flight at the same time, the result of a
\* request changes and removes no node but the placeholder of that request,
\* be it a node of the other batch or a node that was there before; and once
\* both batches have settled the collection holds, of the nodes of each
\* batch, exactly the placeholders whose request succeeded (those the user
\* left behind on the canvas that was replaced apart).
C20_OverlappingBatchesIndependent ==
    /\ history.overlap /\ (\A b \in 1..Len(batches) : AllSettled(b))
         => \A b \in 1..Len(batches) :
               Ids(images) \cap BatchIds(b) = Succeeded(b) \ history.wiped
    /\ Overlapping(batches)
         => \A b \in 1..Len(batches), k \in 1..SpawnCount, response \in Responses :
               (Fired(b) /\ batches[b].requests[k] = "pending") =>
                  LET id == batches[b].newPlaceholders[k].id
                      after == IF generateSingleImage(apiKey, response) = "rejected"
                               THEN images
                               ELSE ApplyResult(images, id,
                                                generateSingleImage(apiKey, response))
                  IN Others(after, id) = Others(images, id)

\* two batches were in flight together on one canvas and have settled, some
\* requests of each with an image and some without; the nodes of both are
\* in the collection
C20_Witness ==
    /\ history.overlap
    /\ Len(batches) = 2
    /\ \A b \in 1..Len(batches) :
          /\ AllSettled(b)
          /\ Present(b) # {}
          /\ Succeeded(b) # BatchIds(b)
          /\ Ids(images) \cap BatchIds(b) = Succeeded(b)

\* a batch has a request that has not settled
InFlight(b) ==
    /\ Fired(b)
    /\ \E k \in 1..Len(batches[b].requests) : batches[b].requests[k] = "pending"

\* C21 as stated: while a batch is in flight and the status is Generating,
\* a submit of the user is accepted.
C21_SubmitWhileGeneratingAccepted ==
    (status = "GENERATING" /\ \E b \in 1..Len(batches) : InFlight(b))
        => \A sub \in Submissions : CanSubmit(sub.prompt, sub.file)

\* C21 as amended: no submit is accepted while the status is Generating;
\* every step that starts a batch, overlapping or not, starts from a status
\* other than Generating and sets it to Generating.
C21_SubmitOnlyWhenNotGenerating ==
    [][ Len(batches') > Len(batches)
           => status # "GENERATING" /\ status' = "GENERATING" ]_vars

\* a submit was accepted while the batch before it was in flight: the status
\* had been set back to Idle by a new canvas
C21_Witness ==
    /\ Len(batches) = 2
    /\ InFlight(1)
    /\ batches[2].pc = "awaitFile"
    /\ status = "GENERATING"
    /\ apiKey

\* the gestures a pointer move would act for: the pan or else the drag of
\* handleMouseMove (Canvas.tsx:69-81), and the window listeners of the
\* rotations and resizes that were started (ImageCard.tsx:83,108)
ActiveGestures ==
    (IF mouse.inside /\ isPanning THEN {"Panning"} ELSE {})
    \cup (IF mouse.inside /\ ~isPanning /\ Truthy(draggedImageId)
          THEN {"DraggingNode"} ELSE {})
    \cup {IF listeners[j].kind = "rotate" THEN "RotatingNode" ELSE "ResizingNode" :
             j \in 1..Len(listeners)}

\* the nodes a pointer move would drag, rotate or resize
GestureNodes ==
    (IF mouse.inside /\ ~isPanning /\ draggedImageId \in Ids(images)
     THEN {draggedImageId} ELSE {})
    \cup {listeners[j].id : j \in 1..Len(listeners)}

\* C22: at most one of the gestures Panning, DraggingNode, RotatingNode,
\* ResizingNode is active at any time, and at most one node is being
\* dragged, rotated or resized.
C22_SingleActiveGesture ==
    /\ Cardinality(ActiveGestures) <= 1
    /\ Cardinality(GestureNodes) <= 1

\* the step is a pointer-up, or the pointer leaving the canvas
UpOrLeave ==
    \/ mouse'.buttons # mouse.buttons /\ mouse'.buttons \subseteq mouse.buttons
    \/ mouse.inside /\ ~mouse'.inside

\* a pointer move by d would change the viewport, or the x, y, rotation or
\* scale of a node
MoveActs(d) ==
    \/ MovedView(d) # view
    \/ Core(MovedImages(d)) # Core(images)

\* C23: a pointer-up or a pointer-leave of the canvas returns the engine to
\* Idle from every gesture: in the state after it no pointer movement
\* changes the viewport or any node's x, y, rotation or scale.
C23_UpOrLeaveReturnsToIdle ==
    [][ UpOrLeave => \A d \in MoveDeltas : ~MoveActs(d)' ]_vars

\* the nodes whose rotation or scale the step changes
Transformed ==
    {images[j].id : j \in {j \in 1..Len(images) :
        \E i \in 1..Len(images') :
            /\ images'[i].id = images[j].id
            /\ \/ images'[i].rotation # images[j].rotation
               \/ images'[i].scale # images[j].scale}}

\* C24: a rotate or resize gesture starts only on the node that is selected
\* at that moment, and a rotation or a scale is only ever applied to the
\* node of a gesture that was started.
C24_RotateResizeOnlyOnSelected ==
    [][ /\ Len(listeners') > Len(listeners)
              => /\ Truthy(selectedId)
                 /\ listeners'[Len(listeners')].id = selectedId
                 /\ SubSeq(listeners', 1, Len(listeners)) = listeners
        /\ Transformed \subseteq {listeners[j].id : j \in 1..Len(listeners)}
      ]_vars

\* a gesture that started on the selected node has rotated or resized it
C24_Witness ==
    /\ listeners # <<>>
    /\ \E j \in 1..Len(images) :
          /\ images[j].id = listeners[1].id
          /\ images[j].id = selectedId
          /\ images[j].timestamp = SavedImage.timestamp
          /\ images[j].rotation # SavedImage.rotation \/ images[j].scale # SavedImage.scale

\* the step is a primary pointer-down on the background of the canvas
BackgroundPress ==
    /\ 0 \notin mouse.buttons
    /\ 0 \in mouse'.buttons
    /\ mouse'.downOn = NullId

\* C25: after a primary pointer-down on the empty background no node is
\* selected, whatever the selection was before.
C25_BackgroundPressDeselects ==
    [][ BackgroundPress
           => ~Truthy(selectedId') /\ selectedId' \notin Ids(images') ]_vars

\* the primary button is down on the background, after a press on a card,
\* and the node that press selected is selected no more
C25_Witness ==
    /\ 0 \in mouse.buttons
    /\ mouse.downOn = NullId
    /\ selectedId = EmptyId
    /\ DOMAIN dragStartRef # {}

\* the pointer is less than 5 px from where the primary button went down on
\* card id: released here, the press is a click (ImageCard.tsx:45-46)
WithinClick(id) ==
    LET dx == mouse.x - dragStartRef[id].x
        dy == mouse.y - dragStartRef[id].y
    IN dx * dx + dy * dy < ClickThreshold * ClickThreshold

\* C26: a press on a node whose total movement stays under 5 px is a click
\* and not a drag: while the button is held and the pointer is within 5 px
\* of where it went down, no step changes the node's x or y.
C26_ClickDoesNotMove ==
    [][ \A id \in Ids(images) :
           (PressedOn(id) /\ PressedOn(id)' /\ WithinClick(id) /\ WithinClick(id)')
              => /\ Find(images', id).x = Find(images, id).x
                 /\ Find(images', id).y = Find(images, id).y ]_vars

\* the step is a pointer move
PointerMoves == <<mouse'.x, mouse'.y>> # <<mouse.x, mouse.y>>

\* C27: while Panning a pointer move adds the pointer's screen delta to the
\* pan and changes neither the zoom nor any node; while DraggingNode it adds
\* (screen delta / zoom) to the x and y of the dragged node and changes
\* neither the viewport, nor another node, nor another field of that node.
C27_GestureEffectsConfined ==
    [][ PointerMoves =>
          LET deltaX == mouse'.x - mouse.x
              deltaY == mouse'.y - mouse.y
          IN /\ (mouse.inside /\ isPanning)
                  => /\ view' = [x |-> view.x + deltaX, y |-> view.y + deltaY,
                                 k |-> view.k]
                     /\ images' = images
             /\ (mouse.inside /\ ~isPanning /\ draggedImageId \in Ids(images))
                  => /\ view' = view
                     /\ images' =
                          [j \in 1..Len(images) |->
                             IF images[j].id = draggedImageId
                             THEN [images[j] EXCEPT
                                     !.x = @ + (deltaX * Milli) \div view.k,
                                     !.y = @ + (deltaY * Milli) \div view.k]
                             ELSE images[j]]
      ]_vars

\* the step is an update(id, partial) of the user
UpdateStep == budget'.user < budget.user /\ selectedId' = selectedId

\* the step applies the result of a request
ResultStep == \E b \in 1..Len(batches) : batches'[b].requests # batches[b].requests

\* C28: update(id, partial) changes only the fields given in partial, on
\* the node with that id in the latest collection: its other fields and the
\* other nodes are unchanged, and with no node of that id the collection is
\* unchanged; a result that arrives for the node changes none of the fields
\* an update sets, so neither change is lost.
C28_UpdateMergesGivenFields ==
    [][ /\ UpdateStep =>
              \E id \in Ids(images) : \E updates \in Updates(Find(images, id)) :
                 /\ Len(images') = Len(images)
                 /\ \A j \in 1..Len(images) :
                       IF images[j].id = id
                       THEN \A f \in DOMAIN images[j] :
                               images'[j][f] = IF f \in DOMAIN updates
                                               THEN updates[f] ELSE images[j][f]
                       ELSE images'[j] = images[j]
        /\ \A id \in history.deleted \ Ids(images) :
              \A updates \in Updates(SavedImage) :
                 handleUpdateImage(images, id, updates) = images
        /\ ResultStep =>
              \A j \in 1..Len(images) : \A i \in 1..Len(images') :
                 images'[i].id = images[j].id =>
                    Core(<<images'[i]>>) = Core(<<images[j]>>)
      ]_vars

\* a placeholder that the user updated while it was loading has its result:
\* it shows the image, and it is not where and how the batch made it
C28_Witness ==
    \E b \in 1..Len(batches) : \E k \in 1..Len(batches[b].newPlaceholders) :
        LET placeholder == batches[b].newPlaceholders[k]
            img == Find(images, placeholder.id)
        IN /\ placeholder.id \in history.editedLoading
           /\ img # Undefined
           /\ img.url = DataUrl /\ ~img.isLoading
           /\ Core(<<img>>) # Core(<<placeholder>>)

\* the step resumes submit b after fileToBase64 has rejected: no reference
\* node of the submit is appended
FileReadFailed(b) ==
    /\ batches[b].pc = "awaitFile"
    /\ batches'[b].pc # "awaitFile"
    /\ RefImageId(batches[b].timestamp) \notin Ids(images')

\* C29: when the uploaded file of a submit cannot be read, no node is
\* created for that submit.
C29_UnreadableFileCreatesNoNode ==
    [][ \A b \in 1..Len(batches) :
           FileReadFailed(b) =>
              /\ Ids(images') \subseteq Ids(images)
              /\ batches'[b].newPlaceholders = <<>> ]_vars

\* the step ends a load of an entry whose record is not in the database
AbsentLoadEnds ==
    /\ uiOp.pc = "loading"
    /\ uiOp'.pc = "idle"
    /\ uiOp.id \notin DOMAIN db.canvases

---------------------------------------------------------------------------
\* the user presses the new-canvas button (Header: onNewCanvas)
NewCanvasPressed ==
    /\ uiOp.pc = "idle"
    /\ budget'.switches < budget.switches
    /\ uiOp'.pc \in {"idle", "newSaving"}

\* handleNewCanvas sets the new canvas: after its save, or at once on an
\* empty canvas
NewCanvasSet ==
    \/ uiOp.pc = "newSaving" /\ uiOp'.pc = "idle"
    \/ NewCanvasPressed /\ Len(images) = 0

\* C31: a press of new canvas on a non-empty collection changes nothing by
\* itself, and nothing at all when the user declines (the handler is over);
\* when the handler goes on, after the accepted confirmation and the save or
\* at once on an empty collection, the collection is empty, the selection is
\* none, the status is IDLE and the canvas id is one that neither the
\* canvas before, nor a stored canvas, nor an entry of the history has.
C31_NewCanvasConfirmed ==
    [][ /\ (NewCanvasPressed /\ Len(images) > 0)
            => /\ history'.answer \in {"accept", "decline"}
               /\ canvasId' = canvasId /\ images' = images
               /\ selectedId' = selectedId /\ status' = status
               /\ history'.answer = "decline" => uiOp'.pc = "idle"
               /\ history'.answer = "accept" => uiOp'.pc = "newSaving"
        /\ (NewCanvasSet /\ Len(uiOp.images) > 0) => history.answer = "accept"
        /\ NewCanvasSet
            => /\ images' = <<>>
               /\ selectedId' = NullId
               /\ status' = "IDLE"
               /\ canvasId' # canvasId
               /\ canvasId' \notin DOMAIN db.canvases
               /\ \A j \in 1..Len(historyList) : historyList[j] # canvasId' ]_vars

\* an accepted new canvas replaced a canvas with nodes, among them those of
\* a submit, whose status it put back to IDLE
C31_Witness ==
    /\ history.answer = "accept"
    /\ uiOp.pc = "idle"
    /\ images = <<>>
    /\ status = "IDLE"
    /\ Len(batches) > 0
    /\ \E b \in 1..Len(batches) : Ids(batches[b].newPlaceholders) \subseteq history.wiped
    /\ canvasId.tag = "canvas" /\ canvasId.ts > 0

---------------------------------------------------------------------------
\* the save that handler h awaits fails on this step, and leaves the record
\* of the canvas out of date
SaveFails(h, pc) ==
    /\ uiOp.pc = pc
    /\ uiOp'.pc # pc
    /\ history'.failed = h

\* the load that handleLoadCanvas started is over
LoadEnds == uiOp.pc = "loading" /\ uiOp'.pc = "idle"

\* C32: a failing save of the current canvas does not stop the handler and
\* undoes nothing.  After it handleNewCanvas sets the new, empty canvas;
\* handleOpenHistory opens the history and leaves canvas id, collection and
\* selection as they are; handleLoadCanvas leaves them as they are and goes
\* on to the load of the same entry, which, when the record is there and is
\* read, makes the entry's canvas the current one, with the nodes of its
\* record, and closes the history.
C32_FailedSaveNotFatal ==
    [][ /\ SaveFails("new", "newSaving")
            => /\ uiOp'.pc = "idle"
               /\ images' = <<>>
               /\ canvasId' # canvasId /\ canvasId' \notin DOMAIN db'.canvases
               /\ db'.canvases = db.canvases
        /\ SaveFails("history", "historySaving")
            => /\ uiOp'.pc = "idle"
               /\ showHistory'
               /\ images' = images /\ canvasId' = canvasId /\ selectedId' = selectedId
        /\ SaveFails("load", "loadSaving")
            => /\ uiOp'.pc = "loading" /\ uiOp'.id = uiOp.id
               /\ images' = images /\ canvasId' = canvasId /\ selectedId' = selectedId
        /\ (LoadEnds /\ history.failed = "load" /\ uiOp.id \in DOMAIN db.canvases
               /\ history'.answer # "alert")
            => /\ canvasId' = uiOp.id
               /\ Core(images') = Core(db.canvases[uiOp.id])
               /\ ~showHistory' ]_vars

\* a canvas was loaded from the history although the save of the canvas
\* before it had failed
C32_Witness ==
    /\ history.failed = "load"
    /\ history.answer = "none"
    /\ history.loaded
    /\ uiOp.pc = "idle"
    /\ ~showHistory
    /\ db.last = canvasId
    /\ canvasId \in DOMAIN db.canvases
    /\ Len(images) > 0
    /\ Core(images) = Core(db.canvases[canvasId])

---------------------------------------------------------------------------
\* C33: the selected id is none (null, or the '' of a background click) or
\* the id of a node of the collection.
C33_SelectionPresent == Truthy(selectedId) => selectedId \in Ids(images)

---------------------------------------------------------------------------
\* the request of the placeholder with this id is sent and not yet settled
Awaited(id) ==
    \E b \in 1..Len(batches) :
        /\ batches[b].pc = "fired"
        /\ \E k \in 1..Len(batches[b].requests) :
              /\ batches[b].newPlaceholders[k].id = id
              /\ batches[b].requests[k] = "pending"

\* C34: every node of the collection that is loading has a request that has
\* not settled yet.
C34_LoadingHasPendingRequest ==
    \A j \in 1..Len(images) : images[j].isLoading => Awaited(images[j].id)

---------------------------------------------------------------------------
\* the ids of the nodes submit b creates: its reference node and its
\* placeholders (part_000:880, 928)
SubmitNodeIds(b) ==
    {RefImageId(batches[b].timestamp)}
        \cup {PlaceholderId(batches[b].timestamp, i) : i \in 0..(SpawnCount - 1)}

\* C35: a node that a submit created is in the collection only of the canvas
\* the submit was issued on.
C35_SubmitNodesStayOnTheirCanvas ==
    \A b \in 1..Len(batches) : \A j \in 1..Len(images) :
        images[j].id \in SubmitNodeIds(b) => batches[b].canvasId = canvasId

---------------------------------------------------------------------------
\* C36: while a placeholder of the current collection awaits the result of
\* its request, the status is GENERATING.
C36_GeneratingWhileAwaited ==
    (\E j \in 1..Len(images) : images[j].isLoading /\ Awaited(images[j].id))
        => status = "GENERATING"

---------------------------------------------------------------------------
\* request k of batch b settles on this step
Settles(b, k) ==
    /\ b \in 1..Len(batches) /\ Len(batches') = Len(batches)
    /\ k \in 1..Len(batches[b].requests)
    /\ batches[b].requests[k] = "pending"
    /\ batches'[b].requests[k] # "pending"

\* C37: when the request of a placeholder that the user deleted settles,
\* with an image, without one or with a rejection, the collection is left
\* as it is; a deleted node is never in the collection again.
C37_DeletedPlaceholderStaysDeleted ==
    [][ /\ \A b \in 1..Len(batches), k \in 1..SpawnCount :
              (Settles(b, k) /\ batches[b].newPlaceholders[k].id \in history.deleted)
                 => images' = images
        /\ history.deleted \cap Ids(images') = {} ]_vars

\* the request of a deleted placeholder has come back with an image
C37_Witness ==
    \E b \in 1..Len(batches) : \E k \in 1..Len(batches[b].requests) :
        /\ batches[b].newPlaceholders[k].id \in history.deleted
        /\ batches[b].requests[k] = DataUrl
        /\ batches[b].newPlaceholders[k].id \notin Ids(images)

---------------------------------------------------------------------------
\* what a reload shows for the canvas with this id (initStorage,
\* part_000:710-721): the nodes of its record, or none when there is no record
Persisted(store, id) ==
    IF id \in DOMAIN store.canvases THEN StructuredClone(store.canvases[id])
    ELSE <<>>

\* the debounce period of the auto-save has passed with the collection
\* unchanged
DebouncePassed == budget'.saves < budget.saves

\* C38: once the debounce period has passed with the collection unchanged,
\* the record of the current canvas has the nodes of the collection, and
\* none when the collection is empty.
C38_AutoSavePersistsCollection ==
    [][ DebouncePassed => Persisted(db', canvasId) = images ]_vars

---------------------------------------------------------------------------
\* the mount is over: initStorage has returned and every put has settled
MountOver(b) == b.pc = "done" /\ b.puts = <<>>

\* C39: during the mount a stored history index with entries is never
\* replaced by the empty list, and when the mount is over the stored index
\* has the entries it had before.
C39_StartupKeepsIndex ==
    [][ /\ Len(Entries(db.index)) > 0 => db'.index # <<>>
        /\ MountOver(boot') => Entries(db'.index) = Entries(boot.index0) ]_vars

====
